---------------------------- MODULE Spec2Model ----------------------------
(***************************************************************************)
(* A model of palemoky/eink-panel's refresh/task orchestration layer:      *)
(*   - TaskManager (src/src/core/task_manager.py): named background        *)
(*     activities, one asyncio.Lock, start / stop / cleanup;               *)
(*   - main() (src/src/main.py): the refresh loop with its quiet-hours     *)
(*     wait, its data fetch, render, display and interval wait, and the    *)
(*     module's signal_handler;                                            *)
(*   - BaseContentProvider (src/src/providers/base.py): get_content with   *)
(*     its cache file and its fallback data, and _save_cache step by step; *)
(*   - is_in_quiet_hours (src/src/main.py) on a clock finer than a second; *)
(*   - get_hackernews (src/src/providers/hackernews.py) and the pagination *)
(*     task that calls it;                                                 *)
(*   - retry_strategy (src/src/providers.py) around a fetcher.             *)
(* asyncio is single-threaded and cooperative: one action of the model is  *)
(* the code that runs between two suspension points (await).               *)
(***************************************************************************)
EXTENDS Integers, Sequences, FiniteSets, TLC

(***************************************************************************)
(* Bounds of the model.                                                    *)
(***************************************************************************)
\* The number of activities the callers may launch in one behaviour.
MaxLaunch == 2

\* The task names in use and the coroutines that call the manager.
Names == {"A", "B"}
Callers == {"c1", "c2"}

ActIds == 1..MaxLaunch
Free == "free"

(***************************************************************************)
(* TaskManager state.                                                      *)
(***************************************************************************)
VARIABLES
    tasks,      \* self._tasks, a dict in insertion order: a sequence of
                \* [name, id] entries, id the activity (its Task and Event)
    lock,       \* self._lock: Free, or the caller that holds it
    waiters,    \* self._lock._waiters: the callers queued on the lock (FIFO)
    status,     \* per activity: the state of its asyncio.Task
    stopEvent,  \* per activity: its stop_event is set
    cancelReq,  \* per activity: cancellation was requested while it ran
    actName,    \* per activity: the name it was launched under
    nextId,     \* the id the next launched activity gets
    call        \* per caller: the frame of the manager call it is in
                \*   pc    where it is suspended ("idle": in no call)
                \*   op    "start", "stop" or "cleanup"
                \*   arg   the name argument of the start / stop
                \*   tgt   the activity _stop_task is stopping (0: none)
                \*   todo  cleanup's task_names not yet stopped
                \*   snap  the activities tracked when cleanup was called
                \*   res   how the caller's last call ended: "returned",
                \*         "not_found" (a stop that returned after logging
                \*         "Task not found") or the exception that left it

tmVars == <<tasks, lock, waiters, status, stopEvent, cancelReq, actName,
            nextId, call>>

(***************************************************************************)
(* main() state.                                                           *)
(***************************************************************************)
VARIABLES
    mpc,            \* where main() is suspended
    configChanged,  \* the asyncio.Event config_changed is set
    clock,          \* the hour of the day
    timer,          \* hours left of the wait_for timeout main() waits on
                    \* (after a wake: what was left, until the next wait)
    cfg,            \* the configuration in force
    day,            \* today's kind
    displayMode,    \* display_mode of the current cycle ("none": not chosen)
    data,           \* what the cycle's data dictionary holds
    fetched,        \* the fetches of the current cycle, in order
    rendered,       \* the layout generate_image drew in the current cycle
    epdCalls,       \* the driver calls of the current cycle, in order
    fetchHours,     \* hours passed in the current cycle between its quiet
                    \* check and its generate_image call
    exitCause,      \* why main() left its loop ("none": it has not)
    watcher         \* the config watcher is running

mainVars == <<mpc, configChanged, clock, timer, cfg, day, displayMode, data,
              fetched, rendered, epdCalls, fetchHours, exitCause, watcher>>

(***************************************************************************)
(* The process: signal handling and exit.                                  *)
(***************************************************************************)
VARIABLES
    driver,         \* the global _driver is set (get_driver() has returned)
    sigLog,         \* what signal_handler did, in order
    exitStatus      \* the status sys.exit() ended the process with
                    \* ("none": signal_handler has not ended it)

sigVars == <<driver, sigLog, exitStatus>>

(***************************************************************************)
(* BaseContentProvider state.                                              *)
(***************************************************************************)
VARIABLES
    cacheFile,      \* what is at self.cache_file
    pnow,           \* datetime.now(), in hours
    ppc,            \* where get_content is ("idle": not called, or returned)
    fetchCalls,     \* the calls of _fetch_content by the current / last call
    ret,            \* how the last get_content ended and what it returned
    saved           \* the last cache entry _save_cache wrote

provVars == <<cacheFile, pnow, ppc, fetchCalls, ret, saved>>

(***************************************************************************)
(* _save_cache step by step: the temporary file beside the cache file.     *)
(***************************************************************************)
VARIABLES
    tempFile,       \* what is at self.cache_file.with_suffix(".tmp")
    pending         \* cache_data of the _save_cache call in progress

saveVars == <<tempFile, pending>>

(***************************************************************************)
(* is_in_quiet_hours and the wait that uses its result.                    *)
(***************************************************************************)
VARIABLES
    qnow,           \* pendulum.now(), in ticks since midnight
    qstart,         \* Config.hardware.quiet_start_hour
    qend,           \* Config.hardware.quiet_end_hour
    qres,           \* what is_in_quiet_hours returned (<<>>: not called)
    qpc             \* "check", "sleep" (waiting for the timeout), "woke"

quietVars == <<qnow, qstart, qend, qres, qpc>>

(***************************************************************************)
(* get_hackernews: its state file, its cache file and the call under way.  *)
(***************************************************************************)
VARIABLES
    hnState,        \* "current_page" in the state file (0: no state file)
    hnCache,        \* the number of stories in a cache file that has not
                    \* expired (0: no such file)
    hnpc,           \* "idle", or "fetching" while the stories are awaited
    hnAdv,          \* advance_page of the current / last call
    hnRet           \* what the last call returned

hnVars == <<hnState, hnCache, hnpc, hnAdv, hnRet>>

(***************************************************************************)
(* The Hacker News pagination task.                                        *)
(***************************************************************************)
VARIABLES
    tpc,            \* where the task is
    tStop,          \* its stop_event is set
    tQuiet,         \* the last iteration found itself in the quiet window
    tIter,          \* the iterations begun (waits that timed out)
    tSkips,         \* the iterations skipped for the quiet window
    tFetch,         \* the get_hackernews calls made
    tPartial,       \* the partial display updates issued
    tFull           \* the full display updates issued

taskVars == <<tpc, tStop, tQuiet, tIter, tSkips, tFetch, tPartial, tFull>>

(***************************************************************************)
(* A fetcher wrapped in retry_strategy.                                    *)
(***************************************************************************)
VARIABLES
    rpc,            \* "idle", "attempt", "sleep" or "done"
    rAttempt,       \* the attempt number of the current call
    rLog,           \* the attempts' outcomes and the pauses, in order
    rOut,           \* how the call ended ("none": it has not)
    rCalls          \* the calls made so far

retryVars == <<rpc, rAttempt, rLog, rOut, rCalls>>

(***************************************************************************)
(* get_hackernews's page size, and _write_cache and _write_state step by   *)
(* step: the two files as an open and a dump leave them.                   *)
(***************************************************************************)
VARIABLES
    hnPerPage,      \* Config.display.hackernews_stories_per_page
    hnDisk,         \* what is at CACHE_FILE and at STATE_FILE
    hnWrite         \* the write in progress

hnFileVars == <<hnPerPage, hnDisk, hnWrite>>

vars == <<tmVars, mainVars, sigVars, provVars, saveVars, quietVars, hnVars,
          taskVars, retryVars, hnFileVars>>

\* What an action of one component leaves alone.
restVars == <<saveVars, quietVars, hnVars, taskVars, retryVars, hnFileVars>>
exceptTM == <<mainVars, sigVars, provVars, restVars>>
exceptMain == <<tmVars, sigVars, provVars, restVars>>
exceptProv == <<tmVars, mainVars, sigVars, restVars>>
coreVars == <<tmVars, mainVars, sigVars>>
exceptSave == <<coreVars, quietVars, hnVars, taskVars, retryVars, hnFileVars>>
exceptQuiet ==
    <<coreVars, provVars, saveVars, hnVars, taskVars, retryVars, hnFileVars>>
exceptHN ==
    <<coreVars, provVars, saveVars, quietVars, taskVars, retryVars, hnFileVars>>
exceptPage == <<coreVars, provVars, saveVars, quietVars, retryVars, hnFileVars>>
exceptRetry ==
    <<coreVars, provVars, saveVars, quietVars, hnVars, taskVars, hnFileVars>>
exceptHNFile ==
    <<coreVars, provVars, saveVars, quietVars, hnVars, taskVars, retryVars>>

\* asyncio.Task.done(): finished with a result, an exception or cancelled.
Done(a) == status[a] \in {"ok", "err", "timeout_err", "cancelled"}

\* A caller that is in no call; r is how its last call ended.
Idle(r) == [pc |-> "idle", op |-> "none", arg |-> "-", tgt |-> 0,
            todo |-> <<>>, snap |-> {}, res |-> r]

\* The results of a call that returned to its caller without an exception.
Normal == {"returned", "not_found"}

TMInit ==
    /\ tasks = <<>>
    /\ lock = Free
    /\ waiters = <<>>
    /\ status = [a \in ActIds |-> "unborn"]
    /\ stopEvent = [a \in ActIds |-> FALSE]
    /\ cancelReq = [a \in ActIds |-> FALSE]
    /\ actName = [a \in ActIds |-> "-"]
    /\ nextId = 1
    /\ call = [p \in Callers |-> Idle("none")]

(***************************************************************************)
(* The dict self._tasks.                                                   *)
(***************************************************************************)
\* name in self._tasks
Tracked(n) == \E i \in DOMAIN tasks : tasks[i].name = n

\* self._tasks[name]
TaskOf(n) == tasks[CHOOSE i \in DOMAIN tasks : tasks[i].name = n].id

\* list(self._tasks.keys())
Keys == [i \in DOMAIN tasks |-> tasks[i].name]

\* The activities self._tasks holds.
TrackedActs == {tasks[i].id : i \in DOMAIN tasks}

\* del ts[name]
Del(ts, n) == SelectSeq(ts, LAMBDA e : e.name # n)

\* ts[name] = a: a present key keeps its place, a new key goes last.
Put(ts, n, a) ==
    IF \E i \in DOMAIN ts : ts[i].name = n
    THEN [i \in DOMAIN ts |-> IF ts[i].name = n THEN [name |-> n, id |-> a]
                                                ELSE ts[i]]
    ELSE Append(ts, [name |-> n, id |-> a])

\* The starts that hold or await the lock: each will need a fresh id.
PendingStarts == Cardinality({p \in Callers : call[p].op = "start"})

(***************************************************************************)
(* _stop_task's try / except chain, as a function of how the task ended.   *)
(***************************************************************************)
\* What `await asyncio.wait_for(task, timeout)` does once the task is done:
\* it returns, or re-raises what the task raised; after a timeout it has
\* cancelled the task and raises TimeoutError only if the task ended
\* cancelled, otherwise the task's own result or exception.
WaitFor(st, timedOut) ==
    CASE st = "ok" -> "returned"
      [] st = "err" -> "Exception"
      [] st = "timeout_err" -> "TimeoutError"
      [] st = "cancelled" -> IF timedOut THEN "TimeoutError" ELSE "CancelledError"

\* What `await task` does on a finished task.
AwaitTask(st) ==
    CASE st = "ok" -> "returned"
      [] st = "err" -> "Exception"
      [] st = "timeout_err" -> "TimeoutError"
      [] st = "cancelled" -> "CancelledError"

\* How _stop_task ends: "returned", or the exception that leaves it.
\* except asyncio.TimeoutError: task.cancel(); await task, where only
\* CancelledError is caught.  except CancelledError / except Exception: logged.
\* (task.cancel() finds the task done, wait_for having waited for it.)
StopTaskOutcome(st, timedOut) ==
    IF WaitFor(st, timedOut) = "TimeoutError"
    THEN IF AwaitTask(st) = "CancelledError" THEN "returned" ELSE AwaitTask(st)
    ELSE "returned"

\* Faulty variant: the del at the end of the try block instead of in finally.
UntrackOnSuccess(ts, n, out) == IF out = "returned" THEN Del(ts, n) ELSE ts

\* _stop_task's `finally: del self._tasks[name]`, whatever the outcome.
Untrack(ts, n, out) == Del(ts, n)

(***************************************************************************)
(* Queries (no lock taken).                                                *)
(***************************************************************************)
\* Faulty variant: is_running without the task.done() test.
IsRunningTracked(n) == Tracked(n)

\* is_running(name)
IsRunning(n) == IF ~Tracked(n) THEN FALSE ELSE ~Done(TaskOf(n))

\* get_running_tasks(): the names, in dict order, whose task is not done.
GetRunningTasks ==
    LET running == SelectSeq(tasks, LAMBDA e : ~Done(e.id))
    IN  [i \in DOMAIN running |-> running[i].name]

(***************************************************************************)
(* Pieces of start / stop.                                                 *)
(***************************************************************************)
\* asyncio.create_task(coro_func(stop_event, ...)); self._tasks[name] = ...
\* ts is self._tasks before the assignment.
Launch(n, ts) ==
    /\ tasks' = Put(ts, n, nextId)
    /\ status' = [status EXCEPT ![nextId] = "running"]
    /\ actName' = [actName EXCEPT ![nextId] = n]
    /\ nextId' = nextId + 1

\* The frame of a caller whose stop (plain, or cleanup's) has ended with r:
\* cleanup goes on with its loop when its stop returned, every other case
\* ends the call.
AfterStop(f, r) ==
    IF f.op = "cleanup" /\ r \in Normal
    THEN [f EXCEPT !.pc = "cleanup", !.arg = "-", !.tgt = 0]
    ELSE Idle(r)

\* Faulty variant: start without its "stop existing task" block.
HasTaskToStopOnlyStop(f) == f.op # "start" /\ Tracked(f.arg)

\* `if name in self._tasks` of start, `if name not in self._tasks` of
\* _stop_task: whether the call has an activity to stop.
HasTaskToStop(f) == Tracked(f.arg)

\* Faulty variant: _stop_task without its membership test, so that
\* self._tasks[name] raises KeyError.
NotFoundRaises(f) == Idle("KeyError")

\* _stop_task on a name that is not tracked: logger.debug, return.
NotFound(f) == AfterStop(f, "not_found")

\* Faulty variant: the lock released before the task is awaited.
LockWhileAwaitingReleased(p) == Free

\* `async with self._lock:` around `await self._stop_task(...)`: who holds
\* the lock while caller p awaits the task.
LockWhileAwaiting(p) == p

\* The code a start / stop runs once it holds the lock, up to its first
\* suspension; f is the caller's frame (op and arg set).
LockedBody(p, f) ==
    IF ~HasTaskToStop(f)
    THEN /\ lock' = Free
         /\ UNCHANGED stopEvent
         /\ IF f.op = "start"
            THEN /\ Launch(f.arg, tasks)
                 /\ call' = [call EXCEPT ![p] = Idle("returned")]
            ELSE /\ call' = [call EXCEPT ![p] = NotFound(f)]
                 /\ UNCHANGED <<tasks, status, actName, nextId>>
    ELSE \* _stop_task: stop_event.set(), then await wait_for(task, timeout)
         /\ stopEvent' = [stopEvent EXCEPT ![TaskOf(f.arg)] = TRUE]
         /\ call' = [call EXCEPT ![p] =
                        [f EXCEPT !.pc = "wait", !.tgt = TaskOf(f.arg)]]
         /\ lock' = LockWhileAwaiting(p)
         /\ UNCHANGED <<tasks, status, actName, nextId>>

\* `async with self._lock`: asyncio.Lock.acquire() takes a free lock at once
\* when nobody is queued, and queues the caller otherwise.
CallBody(p, f) ==
    /\ UNCHANGED cancelReq
    /\ IF lock = Free /\ waiters = <<>>
       THEN LockedBody(p, f) /\ UNCHANGED waiters
       ELSE /\ waiters' = Append(waiters, p)
            /\ call' = [call EXCEPT ![p] = [f EXCEPT !.pc = "acquire"]]
            /\ UNCHANGED <<tasks, lock, status, stopEvent, actName, nextId>>

(***************************************************************************)
(* TaskManager operations.                                                 *)
(***************************************************************************)
\* start(name, coro_func)
StartCall(p, n) ==
    /\ UNCHANGED exceptTM
    /\ call[p].pc = "idle"
    /\ nextId + PendingStarts <= MaxLaunch
    /\ CallBody(p, [Idle("none") EXCEPT !.op = "start", !.arg = n])

\* stop(name, timeout)
StopCall(p, n) ==
    /\ UNCHANGED exceptTM
    /\ call[p].pc = "idle"
    /\ CallBody(p, [Idle("none") EXCEPT !.op = "stop", !.arg = n])

\* The queued caller at the head of the lock's waiters gets the released lock.
Acquire(p) ==
    /\ UNCHANGED exceptTM
    /\ call[p].pc = "acquire"
    /\ lock = Free
    /\ waiters # <<>> /\ Head(waiters) = p
    /\ waiters' = Tail(waiters)
    /\ LockedBody(p, call[p])
    /\ UNCHANGED cancelReq

\* Faulty variant: the timeout ends the wait_for without cancelling the task,
\* which is then awaited as it is.
TimeoutNoCancel(p) ==
    /\ UNCHANGED exceptTM
    /\ call[p].pc = "wait"
    /\ ~Done(call[p].tgt)
    /\ call' = [call EXCEPT ![p].pc = "cancelwait"]
    /\ UNCHANGED <<tasks, lock, waiters, status, stopEvent, cancelReq,
                   actName, nextId>>

\* wait_for's timeout fires before the task is done: it cancels the task and
\* waits for the cancellation to end.
Timeout(p) ==
    /\ UNCHANGED exceptTM
    /\ call[p].pc = "wait"
    /\ ~Done(call[p].tgt)
    /\ cancelReq' = [cancelReq EXCEPT ![call[p].tgt] = TRUE]
    /\ call' = [call EXCEPT ![p].pc = "cancelwait"]
    /\ UNCHANGED <<tasks, lock, waiters, status, stopEvent, actName, nextId>>

\* The awaited task is done: the rest of _stop_task (its except clauses and
\* its finally), then the rest of the caller up to the release of the lock.
FinishStop(p) ==
    /\ UNCHANGED exceptTM
    /\ call[p].pc \in {"wait", "cancelwait"}
    /\ Done(call[p].tgt)
    /\ LET f == call[p]
           out == StopTaskOutcome(status[f.tgt], f.pc = "cancelwait")
           ts == Untrack(tasks, f.arg, out)
       IN  IF f.op = "start"
           THEN /\ call' = [call EXCEPT ![p] = Idle(out)]
                /\ IF out = "returned"
                   THEN Launch(f.arg, ts)
                   ELSE tasks' = ts /\ UNCHANGED <<status, actName, nextId>>
           ELSE /\ call' = [call EXCEPT ![p] = AfterStop(f, out)]
                /\ tasks' = ts
                /\ UNCHANGED <<status, actName, nextId>>
    /\ lock' = Free
    /\ UNCHANGED <<waiters, stopEvent, cancelReq>>

\* cleanup(timeout): task_names = list(self._tasks.keys()), then the first
\* `await self.stop(name)` of the loop, or the return when nothing is tracked.
CleanupCall(p) ==
    /\ UNCHANGED exceptTM
    /\ call[p].pc = "idle"
    /\ IF Keys = <<>>
       THEN /\ call' = [call EXCEPT ![p] = Idle("returned")]
            /\ UNCHANGED <<tasks, lock, waiters, status, stopEvent,
                           cancelReq, actName, nextId>>
       ELSE CallBody(p, [Idle("none") EXCEPT
                            !.op = "cleanup", !.arg = Head(Keys),
                            !.todo = Tail(Keys), !.snap = TrackedActs])

\* cleanup's loop after a stop has returned: the next name, or the return.
CleanupNext(p) ==
    /\ UNCHANGED exceptTM
    /\ call[p].pc = "cleanup"
    /\ IF call[p].todo = <<>>
       THEN /\ call' = [call EXCEPT ![p] = Idle("returned")]
            /\ UNCHANGED <<tasks, lock, waiters, status, stopEvent,
                           cancelReq, actName, nextId>>
       ELSE CallBody(p, [call[p] EXCEPT !.arg = Head(call[p].todo),
                                        !.todo = Tail(call[p].todo)])

(***************************************************************************)
(* The activities: what a coroutine started by the manager may do.         *)
(***************************************************************************)
actFrame == <<tasks, lock, waiters, stopEvent, cancelReq, actName,
              nextId, call>>

\* The activity returns (by itself, on its stop event, or swallowing a cancel).
ActReturn(a) ==
    /\ UNCHANGED exceptTM
    /\ status[a] = "running"
    /\ status' = [status EXCEPT ![a] = "ok"]
    /\ UNCHANGED actFrame

\* The activity ends with an exception other than TimeoutError.
ActRaise(a) ==
    /\ UNCHANGED exceptTM
    /\ status[a] = "running"
    /\ status' = [status EXCEPT ![a] = "err"]
    /\ UNCHANGED actFrame

\* The activity ends with asyncio.TimeoutError (an uncaught wait_for timeout).
ActRaiseTimeout(a) ==
    /\ UNCHANGED exceptTM
    /\ status[a] = "running"
    /\ status' = [status EXCEPT ![a] = "timeout_err"]
    /\ UNCHANGED actFrame

\* The cancellation requested by wait_for ends the activity.
ActCancelled(a) ==
    /\ UNCHANGED exceptTM
    /\ status[a] = "running"
    /\ cancelReq[a]
    /\ status' = [status EXCEPT ![a] = "cancelled"]
    /\ UNCHANGED actFrame

TMNext ==
    \/ \E p \in Callers, n \in Names : StartCall(p, n)
    \/ \E p \in Callers, n \in Names : StopCall(p, n)
    \/ \E p \in Callers : Acquire(p)
    \/ \E p \in Callers : Timeout(p)
    \/ \E p \in Callers : FinishStop(p)
    \/ \E p \in Callers : CleanupCall(p)
    \/ \E p \in Callers : CleanupNext(p)
    \/ \E a \in ActIds : ActReturn(a)
    \/ \E a \in ActIds : ActRaise(a)
    \/ \E a \in ActIds : ActRaiseTimeout(a)
    \/ \E a \in ActIds : ActCancelled(a)

(***************************************************************************)
(* main(): the refresh loop.  Time is counted in hours: the quiet window   *)
(* is configured in whole hours, and the intervals below are whole hours.  *)
(***************************************************************************)
\* Hours of a day.
HoursPerDay == 24

\* DEFAULT_RANDOM_WALLPAPER_INTERVAL (3600 s), in hours.
DEFAULT_RANDOM_WALLPAPER_INTERVAL == 1

\* The longest a cycle's data fetches may take, in hours.
MaxFetchHours == 1

\* Config.display.refresh_interval_<mode>, and Config.hardware.refresh_interval
\* for a mode that is none of them.
RefreshIntervalConfig ==
    [dashboard |-> 2, quote |-> 3, poetry |-> 3, wallpaper |-> 0,
     holiday |-> 4, year_end |-> 4, hardware |-> 2]

\* The configurations a reload may install:
\* Config.display.mode, Config.display.wallpaper_name (set or not) and
\* Config.hardware.quiet_start_hour / quiet_end_hour.
ConfigModes == {"dashboard", "quote", "wallpaper"}
QuietWindows == {<<1, 6>>, <<22, 5>>}
Configs ==
    [mode : ConfigModes, wallpaper_name : BOOLEAN, quiet : QuietWindows]

\* What kind of day today is: whether HolidayManager.get_holiday() finds a
\* holiday, and whether the date is Dec 31.
DayKinds == [holiday : BOOLEAN, dec31 : BOOLEAN]

MainInit ==
    /\ mpc = "startup"
    /\ configChanged = FALSE
    /\ clock \in 0..(HoursPerDay - 1)
    /\ timer = 0
    /\ cfg \in Configs
    /\ day \in DayKinds
    /\ displayMode = "none"
    /\ data = "none"
    /\ fetched = <<>>
    /\ rendered = "none"
    /\ epdCalls = <<>>
    /\ fetchHours = 0
    /\ exitCause = "none"
    /\ watcher = TRUE

\* is_in_quiet_hours(): (is_quiet, sleep_seconds) at hour h:00 for the window
\* qs:00 - qe:00.  Instants are hours counted from today's midnight.
IsInQuietHours(h, qs, qe) ==
    LET wraps == qs > qe
        start_time == IF wraps /\ ~(h >= qs) /\ h < qe
                      THEN qs - HoursPerDay ELSE qs
        end_time == IF wraps /\ h >= qs THEN qe + HoursPerDay ELSE qe
    IN  IF start_time <= h /\ h < end_time
        THEN <<TRUE, end_time - h>>
        ELSE <<FALSE, 0>>

\* get_refresh_interval(display_mode)
GetRefreshInterval(mode, c) ==
    CASE mode = "dashboard" -> RefreshIntervalConfig.dashboard
      [] mode = "quote" -> RefreshIntervalConfig.quote
      [] mode = "poetry" -> RefreshIntervalConfig.poetry
      [] mode = "wallpaper" ->
            IF c.wallpaper_name
            THEN RefreshIntervalConfig.wallpaper
            ELSE IF RefreshIntervalConfig.wallpaper > 0
                 THEN RefreshIntervalConfig.wallpaper
                 ELSE DEFAULT_RANDOM_WALLPAPER_INTERVAL
      [] mode = "holiday" -> RefreshIntervalConfig.holiday
      [] mode = "year_end" -> RefreshIntervalConfig.year_end
      [] OTHER -> RefreshIntervalConfig.hardware

\* Faulty variant: the year-end check before the holiday lookup.
SelectModeYearEndFirst(d, c) ==
    IF d.dec31 THEN "year_end"
    ELSE IF d.holiday THEN "holiday"
    ELSE c.mode

\* The display mode of a cycle: holiday, then year-end, then the configured one.
SelectMode(d, c) ==
    IF d.holiday THEN "holiday"
    ELSE IF d.dec31 THEN "year_end"
    ELSE c.mode

\* The modes whose data main() fetches before rendering.
FetchModes == {"dashboard", "year_end", "quote", "poetry"}

\* generate_image(): the layout drawn, or "raise".  dt is what the data holds;
\* hol is whether get_holiday() finds a holiday when the image is generated.
GenerateImage(mode, dt, hol) ==
    CASE mode = "dashboard" -> "dashboard"
      [] mode \in {"quote", "poetry"} ->
            IF dt = "empty" THEN "dashboard" ELSE mode
      [] mode = "wallpaper" -> "wallpaper"
      [] mode = "holiday" -> IF hol THEN "holiday" ELSE "raise"
      [] mode = "year_end" -> IF dt = "year_end" THEN "year_end" ELSE "raise"
      [] OTHER -> "dashboard"

\* except Exception: logger.error("Critical Error"), then
\* finally: stop_config_watcher(); the `async with` ends and main() returns.
LeaveLoop(cause) ==
    /\ mpc' = "exited"
    /\ exitCause' = cause
    /\ watcher' = FALSE
    /\ timer' = 0

\* Performing the initial clear: epd.init(); epd.clear(); epd.sleep().
Startup ==
    /\ UNCHANGED exceptMain
    /\ mpc = "startup"
    /\ driver
    /\ mpc' = "top"
    /\ epdCalls' = <<"init", "clear", "sleep">>
    /\ UNCHANGED <<configChanged, clock, timer, cfg, day, displayMode, data,
                   fetched, rendered, fetchHours, exitCause, watcher>>

\* The top of `while True`: handle_quiet_hours() up to its wait, and when not
\* quiet the choice of the display mode, up to the first fetch.
LoopTop ==
    /\ UNCHANGED exceptMain
    /\ mpc = "top"
    /\ LET q == IsInQuietHours(clock, cfg.quiet[1], cfg.quiet[2])
           mode == SelectMode(day, cfg)
       IN  IF q[1]
           THEN /\ mpc' = "quiet_wait"
                /\ timer' = q[2]
                /\ displayMode' = "none"
           ELSE /\ mpc' = IF mode \in FetchModes THEN "fetch" ELSE "render"
                /\ timer' = 0
                /\ displayMode' = mode
    /\ data' = "none"
    /\ fetched' = <<>>
    /\ rendered' = "none"
    /\ epdCalls' = <<>>
    /\ fetchHours' = 0
    /\ UNCHANGED <<configChanged, clock, cfg, day, exitCause, watcher>>

\* Faulty variant: handle_quiet_hours() returns False after a config change,
\* so that the cycle goes on to refresh.
QuietWakeRefreshes ==
    /\ UNCHANGED exceptMain
    /\ mpc = "quiet_wait"
    /\ configChanged
    /\ configChanged' = FALSE
    /\ displayMode' = SelectMode(day, cfg)
    /\ mpc' = IF displayMode' \in FetchModes THEN "fetch" ELSE "render"
    /\ UNCHANGED <<clock, timer, cfg, day, data, fetched, rendered, epdCalls,
                   fetchHours, exitCause, watcher>>

\* handle_quiet_hours(): wait_for(config_changed.wait()) returns; the event is
\* cleared, True is returned and the loop continues at its top.
QuietWake ==
    /\ UNCHANGED exceptMain
    /\ mpc = "quiet_wait"
    /\ configChanged
    /\ configChanged' = FALSE
    /\ mpc' = "top"
    /\ UNCHANGED <<clock, timer, cfg, day, displayMode, data, fetched,
                   rendered, epdCalls, fetchHours, exitCause, watcher>>

\* handle_quiet_hours(): wait_for times out; True is returned.
QuietTimeout ==
    /\ UNCHANGED exceptMain
    /\ mpc = "quiet_wait"
    /\ timer = 0
    /\ mpc' = "top"
    /\ UNCHANGED <<configChanged, clock, timer, cfg, day, displayMode, data,
                   fetched, rendered, epdCalls, fetchHours, exitCause, watcher>>

\* Faulty variant: the fetch without the year-end fallback.
FetchReturnNoDemote(got) ==
    /\ UNCHANGED exceptMain
    /\ mpc = "fetch"
    /\ fetched' = Append(fetched, displayMode)
    /\ mpc' = "render"
    /\ data' = IF displayMode \in {"year_end", "quote", "poetry"} /\ ~got
               THEN "empty" ELSE displayMode
    /\ UNCHANGED <<configChanged, clock, timer, cfg, day, displayMode,
                   rendered, epdCalls, fetchHours, exitCause, watcher>>

\* A fetch of the cycle returns.  got: whether the optional payload (the year
\* summary, the quote) is in the result.
FetchReturn(got) ==
    /\ UNCHANGED exceptMain
    /\ mpc = "fetch"
    /\ fetched' = Append(fetched, displayMode)
    /\ IF displayMode = "year_end" /\ ~got
       THEN \* "Year-end mode but no data, falling back to dashboard"
            /\ displayMode' = "dashboard"
            /\ mpc' = "fetch"
            /\ data' = "empty"
       ELSE /\ displayMode' = displayMode
            /\ mpc' = "render"
            /\ data' = IF displayMode \in {"quote", "poetry"} /\ ~got
                       THEN "empty" ELSE displayMode
    /\ UNCHANGED <<configChanged, clock, timer, cfg, day, rendered, epdCalls,
                   fetchHours, exitCause, watcher>>

\* A fetch of the cycle raises.
FetchRaise ==
    /\ UNCHANGED exceptMain
    /\ mpc = "fetch"
    /\ LeaveLoop("exception")
    /\ UNCHANGED <<configChanged, clock, cfg, day, displayMode, data, fetched,
                   rendered, epdCalls, fetchHours>>

\* generate_image(display_mode, data, epd, layout)
Render ==
    /\ UNCHANGED exceptMain
    /\ mpc = "render"
    /\ LET img == GenerateImage(displayMode, data, day.holiday)
       IN  IF img = "raise"
           THEN LeaveLoop("exception") /\ UNCHANGED rendered
           ELSE /\ rendered' = img
                /\ mpc' = "display"
                /\ UNCHANGED <<timer, exitCause, watcher>>
    /\ UNCHANGED <<configChanged, clock, cfg, day, displayMode, data, fetched,
                   epdCalls, fetchHours>>

\* The renderer raises (a layout, font or image error).
RenderRaise ==
    /\ UNCHANGED exceptMain
    /\ mpc = "render"
    /\ LeaveLoop("exception")
    /\ UNCHANGED <<configChanged, clock, cfg, day, displayMode, data, fetched,
                   rendered, epdCalls, fetchHours>>

\* Faulty variant: update_display awaits after epd.init(), so that other
\* activities run between its driver calls.
DisplayYields ==
    /\ UNCHANGED exceptMain
    /\ mpc = "display"
    /\ epdCalls' = <<"init">>
    /\ UNCHANGED <<mpc, configChanged, clock, timer, cfg, day, displayMode,
                   data, fetched, rendered, fetchHours, exitCause, watcher>>

\* Faulty variant: update_display without its epd.sleep().
DisplayNoSleep ==
    /\ UNCHANGED exceptMain
    /\ mpc = "display"
    /\ epdCalls' = <<"init", "display">>
    /\ mpc' = "interval_wait"
    /\ timer' = 1
    /\ UNCHANGED <<configChanged, clock, cfg, day, displayMode, data,
                   fetched, rendered, fetchHours, exitCause, watcher>>

\* update_display(): epd.init(); epd.display(image); epd.sleep(), then
\* get_refresh_interval() and the wait it leads to.
Display ==
    /\ UNCHANGED exceptMain
    /\ mpc = "display"
    /\ epdCalls' = <<"init", "display", "sleep">>
    /\ LET refresh_interval == GetRefreshInterval(displayMode, cfg)
       IN  IF refresh_interval = 0
           THEN mpc' = "zero_wait" /\ timer' = 0
           ELSE mpc' = "interval_wait" /\ timer' = refresh_interval
    /\ UNCHANGED <<configChanged, clock, cfg, day, displayMode, data, fetched,
                   rendered, fetchHours, exitCause, watcher>>

\* The driver raises in the k-th call of update_display().
DisplayRaise(k) ==
    /\ UNCHANGED exceptMain
    /\ mpc = "display"
    /\ epdCalls' = SubSeq(<<"init", "display", "sleep">>, 1, k - 1)
    /\ LeaveLoop("exception")
    /\ UNCHANGED <<configChanged, clock, cfg, day, displayMode, data, fetched,
                   rendered, fetchHours>>

\* Faulty variant: the wake without config_changed.clear().
IntervalWakeKeepsEvent ==
    /\ UNCHANGED exceptMain
    /\ mpc = "interval_wait"
    /\ configChanged
    /\ mpc' = "top"
    /\ UNCHANGED <<configChanged, clock, timer, cfg, day, displayMode, data,
                   fetched, rendered, epdCalls, fetchHours, exitCause, watcher>>

\* wait_for(config_changed.wait(), timeout=refresh_interval) returns: the
\* event is cleared and the loop is at its top again.
IntervalWake ==
    /\ UNCHANGED exceptMain
    /\ mpc = "interval_wait"
    /\ configChanged
    /\ configChanged' = FALSE
    /\ mpc' = "top"
    /\ UNCHANGED <<clock, timer, cfg, day, displayMode, data, fetched,
                   rendered, epdCalls, fetchHours, exitCause, watcher>>

\* wait_for(..., timeout=refresh_interval) times out.
IntervalTimeout ==
    /\ UNCHANGED exceptMain
    /\ mpc = "interval_wait"
    /\ timer = 0
    /\ mpc' = "top"
    /\ UNCHANGED <<configChanged, clock, timer, cfg, day, displayMode, data,
                   fetched, rendered, epdCalls, fetchHours, exitCause, watcher>>

\* Faulty variant: the zero-interval wait ended without a config change.
ZeroWakeUnprompted ==
    /\ UNCHANGED exceptMain
    /\ mpc = "zero_wait"
    /\ configChanged' = FALSE
    /\ mpc' = "top"
    /\ UNCHANGED <<clock, timer, cfg, day, displayMode, data, fetched,
                   rendered, epdCalls, fetchHours, exitCause, watcher>>

\* refresh_interval == 0: `await config_changed.wait()` returns.
ZeroWake ==
    /\ UNCHANGED exceptMain
    /\ mpc = "zero_wait"
    /\ configChanged
    /\ configChanged' = FALSE
    /\ mpc' = "top"
    /\ UNCHANGED <<clock, timer, cfg, day, displayMode, data, fetched,
                   rendered, epdCalls, fetchHours, exitCause, watcher>>

\* Faulty variant: a notification that flips the signal instead of setting it.
ConfigReloadToggles(c) ==
    /\ UNCHANGED exceptMain
    /\ watcher
    /\ cfg' = c
    /\ configChanged' = ~configChanged
    /\ UNCHANGED <<mpc, clock, timer, day, displayMode, data, fetched,
                   rendered, epdCalls, fetchHours, exitCause, watcher>>

\* on_config_reload(): the watcher has installed a configuration and calls
\* the registered callback, which sets the event.
ConfigReload(c) ==
    /\ UNCHANGED exceptMain
    /\ watcher
    /\ cfg' = c
    /\ configChanged' = TRUE
    /\ UNCHANGED <<mpc, clock, timer, day, displayMode, data, fetched,
                   rendered, epdCalls, fetchHours, exitCause, watcher>>

\* The clock passes into the next hour while main() is suspended in a wait
\* or in a fetch, or between the holiday lookup of the mode selection and
\* the one of generate_image (the two read the date anew); at midnight the
\* day changes.
Tick(d) ==
    /\ UNCHANGED exceptMain
    /\ \/ mpc \in {"quiet_wait", "interval_wait"} /\ timer > 0
          /\ timer' = timer - 1 /\ UNCHANGED fetchHours
       \/ mpc = "zero_wait" /\ UNCHANGED <<timer, fetchHours>>
       \/ mpc = "fetch" /\ fetchHours < MaxFetchHours
          /\ fetchHours' = fetchHours + 1 /\ UNCHANGED timer
       \/ mpc = "render" /\ displayMode = "holiday"
          /\ fetchHours < MaxFetchHours
          /\ fetchHours' = fetchHours + 1 /\ UNCHANGED timer
    /\ clock' = (clock + 1) % HoursPerDay
    /\ day' = IF clock' = 0 THEN d ELSE day
    /\ UNCHANGED <<mpc, configChanged, cfg, displayMode, data, fetched,
                   rendered, epdCalls, exitCause, watcher>>

(***************************************************************************)
(* Signals.  signal_handler is registered for SIGTERM and SIGINT when the  *)
(* module is loaded, and Python runs it in the main thread between two     *)
(* bytecodes of whatever main() is doing.                                  *)
(***************************************************************************)
\* The module is loaded and main() has begun: _driver = None.
SigInit ==
    /\ driver = FALSE
    /\ sigLog = <<>>
    /\ exitStatus = "none"

\* main() is past `_driver = get_driver()`.
DriverReady ==
    /\ driver = TRUE
    /\ sigLog = <<>>
    /\ exitStatus = "none"

\* _driver = get_driver(); epd = _driver
CreateDriver ==
    /\ mpc = "startup"
    /\ ~driver
    /\ driver' = TRUE
    /\ UNCHANGED <<tmVars, mainVars, provVars, restVars, sigLog, exitStatus>>

\* Faulty variant: _driver.sleep() outside a try statement, so that what it
\* raises leaves the handler before sys.exit(0).
SignalHandlerNoCatch(raises) ==
    /\ mpc # "exited"
    /\ raises => driver
    /\ sigLog' = IF driver THEN <<"sleep">> ELSE <<>>
    /\ exitStatus' = IF raises THEN "1" ELSE "0"
    /\ mpc' = "exited"
    /\ exitCause' = "signal"
    /\ watcher' = FALSE
    /\ UNCHANGED <<tmVars, provVars, restVars, driver, configChanged, clock, timer, cfg,
                   day, displayMode, data, fetched, rendered, epdCalls,
                   fetchHours>>

\* signal_handler(signum, frame): `if _driver:` try _driver.sleep(), an
\* Exception it raises being logged; then sys.exit(0): SystemExit unwinds
\* main() (its finally clause stops the config watcher) and ends the process.
\* raises: whether _driver.sleep() raises.
SignalHandler(raises) ==
    /\ mpc # "exited"
    /\ raises => driver
    /\ sigLog' = IF driver
                 THEN IF raises THEN <<"sleep", "error">> ELSE <<"sleep">>
                 ELSE <<>>
    /\ exitStatus' = "0"
    /\ mpc' = "exited"
    /\ exitCause' = "signal"
    /\ watcher' = FALSE
    /\ UNCHANGED <<tmVars, provVars, restVars, driver, configChanged, clock, timer, cfg,
                   day, displayMode, data, fetched, rendered, epdCalls,
                   fetchHours>>

MainNext ==
    \/ Startup
    \/ LoopTop
    \/ QuietWake
    \/ QuietTimeout
    \/ \E got \in BOOLEAN : FetchReturn(got)
    \/ FetchRaise
    \/ Render
    \/ RenderRaise
    \/ Display
    \/ \E k \in 1..3 : DisplayRaise(k)
    \/ IntervalWake
    \/ IntervalTimeout
    \/ ZeroWake
    \/ \E c \in Configs : ConfigReload(c)
    \/ \E d \in DayKinds : Tick(d)

(***************************************************************************)
(* BaseContentProvider (src/src/providers/base.py): get_content with its   *)
(* cache file and its fallback data.  Time is counted in hours.            *)
(***************************************************************************)
\* self.cache_hours
CacheHours == 2

\* The last hour the clock reaches.
MaxNow == 3

\* self.content_type, the key of the payload in the cache file.
ContentType == "quote"

\* The ContentData dictionaries _fetch_content may return.
Payloads == {"p1", "p2"}

\* self.fallback_data
FallbackData == {"f1", "f2"}

\* What may be at self.cache_file: no file, a file that cannot be opened, a
\* file that is not JSON, JSON that is no object, or a JSON object.  Of a JSON object: stamp tells
\* whether "timestamp" is an ISO time ("ok", the time being ts), something
\* else ("bad") or not there ("missing"); key is the key the payload is
\* stored under ("-": none) and payload the value under it ("empty": a value
\* that is false in a condition, such as {} or null).
Absent == [kind |-> "absent", stamp |-> "-", ts |-> 0, key |-> "-", payload |-> "-"]
Unreadable == [Absent EXCEPT !.kind = "unreadable"]
Garbage == [Absent EXCEPT !.kind = "garbage"]
NotObject == [Absent EXCEPT !.kind = "not_object"]
JsonFile(stamp, t, k, p) ==
    [kind |-> "json", stamp |-> stamp, ts |-> t, key |-> k, payload |-> p]

\* The times of the cache files found at the start: up to CacheHours + 1
\* hours old.
InitStamps == (0 - CacheHours - 1)..0

\* The cache files found at the start.
InitFiles ==
    {Absent, Unreadable, Garbage, NotObject}
        \cup {JsonFile(st, 0, ContentType, p) :
                  st \in {"missing", "bad"}, p \in Payloads}
        \cup {JsonFile("ok", t, "-", "-") : t \in InitStamps}
        \cup {JsonFile("ok", t, ContentType, p) :
                  t \in InitStamps, p \in Payloads \cup {"empty"}}

\* get_content has not returned anything yet; _save_cache has written nothing.
NoRet == [out |-> "none", val |-> "-", via |-> "-"]
NoSave == [ts |-> 0, payload |-> "-"]

ProvInit ==
    /\ cacheFile \in InitFiles
    /\ pnow = 0
    /\ ppc = "idle"
    /\ fetchCalls = 0
    /\ ret = NoRet
    /\ saved = NoSave

\* Faulty variant: `<=` for `<`.
FreshInclusive(age) == age <= CacheHours

\* time_since_cache < cache_duration
Fresh(age) == age < CacheHours

\* What the try block of _get_cached_content raises on file f at time now
\* ("none": nothing): open() on a file that cannot be read, json.load() on
\* text that is not JSON, cache_data["timestamp"], datetime.fromisoformat(),
\* and, only once the cache is found fresh, cache_data[self.content_type].
CacheReadError(f, now) ==
    CASE f.kind = "unreadable" -> "OSError"
      [] f.kind = "garbage" -> "JSONDecodeError"
      [] f.kind = "not_object" -> "TypeError"
      [] f.stamp = "missing" -> "KeyError"
      [] f.stamp = "bad" -> "ValueError"
      [] OTHER -> IF Fresh(now - f.ts) /\ f.key # ContentType
                  THEN "KeyError" ELSE "none"

\* Faulty variant: only `except json.JSONDecodeError`.
CacheErrorCaughtJsonOnly(e) == e = "JSONDecodeError"

\* except (json.JSONDecodeError, KeyError, ValueError) and except Exception
\* of _get_cached_content.
CacheErrorCaught(e) ==
    \/ e \in {"JSONDecodeError", "KeyError", "ValueError"}
    \/ e \in {"OSError", "TypeError"}

\* Faulty variant: the cache is never used.
GetCachedContentNever(f, now) == "None"

\* _get_cached_content(): the payload of a fresh cache, "None" otherwise; the
\* exception's name if one left the method.
GetCachedContent(f, now) ==
    IF f.kind = "absent" THEN "None"
    ELSE LET e == CacheReadError(f, now)
         IN  IF e # "none"
             THEN IF CacheErrorCaught(e) THEN "None" ELSE e
             ELSE IF Fresh(now - f.ts) THEN f.payload ELSE "None"

\* The exceptions that may leave _get_cached_content or _fetch_content.
ReadErrors == {"OSError", "JSONDecodeError", "TypeError", "KeyError",
               "ValueError"}
FetchErrors == {"HTTPError", "TimeoutException", "JSONDecodeError",
                "KeyError", "ValueError", "RuntimeError"}

\* `if cached_content:`
Truthy(x) == x \notin {"None", "empty"}

\* Faulty variant: a cache that is never written.
SaveCacheNoWrite(f, content, now, writable) == f

\* _save_cache(content): {"timestamp": now, content_type: content} written
\* to a temporary file that then replaces the cache file; when the file
\* cannot be written the error is logged and the cache file stays as it is.
SaveCache(f, content, now, writable) ==
    IF writable THEN JsonFile("ok", now, ContentType, content) ELSE f

\* Faulty variant: only the network errors are caught.
FetchErrorCaughtNetworkOnly(e) == e \in {"HTTPError", "TimeoutException"}

\* The except clauses of get_content: (httpx.HTTPError,
\* httpx.TimeoutException), (json.JSONDecodeError, KeyError, ValueError)
\* and Exception.
FetchErrorCaught(e) ==
    \/ e \in {"HTTPError", "TimeoutException"}
    \/ e \in {"JSONDecodeError", "KeyError", "ValueError"}
    \/ e \in {"RuntimeError"}

\* get_content(client) up to its return or to `await self._fetch_content`.
GetContentCall ==
    /\ UNCHANGED exceptProv
    /\ ppc = "idle"
    /\ LET cached_content == GetCachedContent(cacheFile, pnow)
       IN  IF cached_content \in ReadErrors
           THEN /\ ret' = [out |-> "raise", val |-> cached_content, via |-> "cache"]
                /\ fetchCalls' = 0
                /\ ppc' = "idle"
           ELSE IF Truthy(cached_content)
           THEN /\ ret' = [out |-> "value", val |-> cached_content, via |-> "cache"]
                /\ fetchCalls' = 0
                /\ ppc' = "idle"
           ELSE /\ ret' = NoRet
                /\ fetchCalls' = 1
                /\ ppc' = "fetching"
    /\ UNCHANGED <<cacheFile, pnow, saved>>

\* _fetch_content returns content: self._save_cache(content); return content.
\* writable: whether the cache file can be written.
FetchContentReturns(content, writable) ==
    /\ UNCHANGED exceptProv
    /\ ppc = "fetching"
    /\ cacheFile' = SaveCache(cacheFile, content, pnow, writable)
    /\ saved' = IF writable THEN [ts |-> pnow, payload |-> content] ELSE saved
    /\ ret' = [out |-> "value", val |-> content, via |-> "fetch"]
    /\ ppc' = "idle"
    /\ UNCHANGED <<pnow, fetchCalls>>

\* Faulty variant: the fallback is written to the cache file as if it had
\* been fetched.
FetchContentRaisesSaves(e) ==
    /\ UNCHANGED exceptProv
    /\ ppc = "fetching"
    /\ \E f \in FallbackData :
          /\ ret' = [out |-> "value", val |-> f, via |-> "fallback"]
          /\ cacheFile' = SaveCache(cacheFile, f, pnow, TRUE)
          /\ saved' = [ts |-> pnow, payload |-> f]
    /\ ppc' = "idle"
    /\ UNCHANGED <<pnow, fetchCalls>>

\* _fetch_content raises e: the except clause that catches it returns
\* self._get_fallback(), random.choice(self.fallback_data).
FetchContentRaises(e) ==
    /\ UNCHANGED exceptProv
    /\ ppc = "fetching"
    /\ IF FetchErrorCaught(e)
       THEN \E f \in FallbackData :
                ret' = [out |-> "value", val |-> f, via |-> "fallback"]
       ELSE ret' = [out |-> "raise", val |-> e, via |-> "fetch"]
    /\ ppc' = "idle"
    /\ UNCHANGED <<cacheFile, pnow, fetchCalls, saved>>

\* An hour passes, between two calls or while the fetch is awaited.
ProvTick ==
    /\ UNCHANGED exceptProv
    /\ pnow < MaxNow
    /\ pnow' = pnow + 1
    /\ UNCHANGED <<cacheFile, ppc, fetchCalls, ret, saved>>

ProvNext ==
    \/ GetContentCall
    \/ \E content \in Payloads, writable \in BOOLEAN :
          FetchContentReturns(content, writable)
    \/ \E e \in FetchErrors : FetchContentRaises(e)
    \/ ProvTick

(***************************************************************************)
(* _save_cache (src/src/providers/base.py) step by step.  The method has   *)
(* no await, so no other coroutine runs between its steps; what can happen *)
(* between them is an exception or the end of the process.                 *)
(***************************************************************************)
\* A file opened for writing whose document is not (yet) all there.
Partial == [Absent EXCEPT !.kind = "partial"]

\* No _save_cache call in progress.
NoPending == Absent

SaveIdle ==
    /\ tempFile = Absent
    /\ pending = NoPending

SaveSteps == {"save_open", "save_dump", "save_replace"}

\* Faulty variant: open(self.cache_file, "w"), the document written in place.
OpenCacheFile(cf, tf) == <<Partial, tf>>

\* `with open(temp_file, "w") as f:` creates or truncates the temporary
\* file; the pair is <<cache file, temporary file>> after the open.
OpenTemp(cf, tf) == <<cf, Partial>>

\* temp_file.replace(self.cache_file): the rename puts the temporary file's
\* document at the cache file's path; the temporary path is gone.
Replace(cf, tf) == <<tf, Absent>>

\* Faulty variant: a failed write is raised to the caller of get_content.
SaveReturnRaises ==
    /\ ret' = [out |-> "raise", val |-> "OSError", via |-> "fetch"]
    /\ ppc' = "idle"
    /\ pending' = NoPending

\* How _save_cache ends: get_content returns the fetched content whether the
\* cache was written or not.
SaveReturn ==
    /\ ret' = [out |-> "value", val |-> pending.payload, via |-> "fetch"]
    /\ ppc' = "idle"
    /\ pending' = NoPending

\* _fetch_content returns content and _save_cache(content) is entered:
\* cache_data = {"timestamp": datetime.now().isoformat(), content_type: content}
SaveBegin(content) ==
    /\ UNCHANGED exceptSave
    /\ ppc = "fetching"
    /\ pending' = JsonFile("ok", pnow, ContentType, content)
    /\ ppc' = "save_open"
    /\ UNCHANGED <<cacheFile, tempFile, pnow, fetchCalls, ret, saved>>

\* open(temp_file, "w"); ok: it does not raise OSError.
SaveOpenTemp(ok) ==
    /\ UNCHANGED exceptSave
    /\ ppc = "save_open"
    /\ IF ok
       THEN /\ LET files == OpenTemp(cacheFile, tempFile)
               IN  cacheFile' = files[1] /\ tempFile' = files[2]
            /\ ppc' = "save_dump"
            /\ UNCHANGED <<pending, ret>>
       ELSE /\ SaveReturn
            /\ UNCHANGED <<cacheFile, tempFile>>
    /\ UNCHANGED <<pnow, fetchCalls, saved>>

\* json.dump(cache_data, f, ...) and the close of the file; ok: neither
\* raises (a full disk raises OSError and leaves a part of the document).
SaveDump(ok) ==
    /\ UNCHANGED exceptSave
    /\ ppc = "save_dump"
    /\ IF ok
       THEN /\ tempFile' = pending
            /\ ppc' = "save_replace"
            /\ UNCHANGED <<pending, ret>>
       ELSE /\ SaveReturn
            /\ UNCHANGED tempFile
    /\ UNCHANGED <<cacheFile, pnow, fetchCalls, saved>>

\* temp_file.replace(self.cache_file); ok: it does not raise OSError.
SaveReplace(ok) ==
    /\ UNCHANGED exceptSave
    /\ ppc = "save_replace"
    /\ IF ok
       THEN /\ LET files == Replace(cacheFile, tempFile)
               IN  cacheFile' = files[1] /\ tempFile' = files[2]
            /\ saved' = [ts |-> pending.ts, payload |-> pending.payload]
       ELSE UNCHANGED <<cacheFile, tempFile, saved>>
    /\ SaveReturn
    /\ UNCHANGED <<pnow, fetchCalls>>

\* The process ends (a signal, a power cut) at any point of a save: the
\* files stay as they are.
SaveCrash ==
    /\ UNCHANGED exceptSave
    /\ ppc \in SaveSteps
    /\ ppc' = "crashed"
    /\ pending' = NoPending
    /\ UNCHANGED <<cacheFile, tempFile, pnow, fetchCalls, ret, saved>>

\* The program is started again.
SaveRestart ==
    /\ UNCHANGED exceptSave
    /\ ppc = "crashed"
    /\ ppc' = "idle"
    /\ ret' = NoRet
    /\ fetchCalls' = 0
    /\ UNCHANGED <<cacheFile, tempFile, pending, pnow, saved>>

SaveNext ==
    \/ GetContentCall
    \/ \E e \in FetchErrors : FetchContentRaises(e)
    \/ ProvTick
    \/ \E content \in Payloads : SaveBegin(content)
    \/ \E ok \in BOOLEAN : SaveOpenTemp(ok)
    \/ \E ok \in BOOLEAN : SaveDump(ok)
    \/ \E ok \in BOOLEAN : SaveReplace(ok)
    \/ SaveCrash
    \/ SaveRestart

(***************************************************************************)
(* is_in_quiet_hours (src/src/main.py) on the clock as the code reads it:  *)
(* an instant of the day, finer than a second, against whole hours.        *)
(***************************************************************************)
\* The instants told apart within one second.
TicksPerSecond == 2

\* replace(hour=..., minute=0, second=0, microsecond=0): an hour's seconds.
SecondsPerHour == 3600

TicksPerHour == SecondsPerHour * TicksPerSecond
TicksPerDay == HoursPerDay * TicksPerHour

\* The instants of an hour the calls are explored at: its start, one tick
\* and one second after it, one second and one tick before its end.
SampleOffsets ==
    {0, 1, TicksPerSecond, TicksPerHour - TicksPerSecond, TicksPerHour - 1}

QuietInit ==
    /\ qstart \in 0..(HoursPerDay - 1)
    /\ qend \in 0..(HoursPerDay - 1)
    /\ \E h \in 0..(HoursPerDay - 1), o \in SampleOffsets :
           qnow = h * TicksPerHour + o
    /\ qres = <<>>
    /\ qpc = "check"

QuietIdle ==
    /\ qnow = 0 /\ qstart = 0 /\ qend = 0 /\ qres = <<>> /\ qpc = "check"

\* Faulty variant: no handling of a window that crosses midnight.
IsInQuietHoursAtNoWrap(now, qs, qe) ==
    IF qs * TicksPerHour <= now /\ now < qe * TicksPerHour
    THEN <<TRUE, (qe * TicksPerHour - now) \div TicksPerSecond>>
    ELSE <<FALSE, 0>>

\* is_in_quiet_hours() at the instant now (ticks since midnight), with
\* int(sleep_seconds) cutting the part of a second off.
IsInQuietHoursAt(now, qs, qe) ==
    LET hour == now \div TicksPerHour
        wraps == qs > qe
        start_time ==
            TicksPerHour * (IF wraps /\ ~(hour >= qs) /\ hour < qe
                            THEN qs - HoursPerDay ELSE qs)
        end_time ==
            TicksPerHour * (IF wraps /\ hour >= qs
                            THEN qe + HoursPerDay ELSE qe)
    IN  IF start_time <= now /\ now < end_time
        THEN <<TRUE, (end_time - now) \div TicksPerSecond>>
        ELSE <<FALSE, 0>>

\* in_quiet, sleep_seconds = is_in_quiet_hours(): when quiet,
\* handle_quiet_hours goes on to wait_for(..., timeout=sleep_seconds).
QuietCheck ==
    /\ UNCHANGED exceptQuiet
    /\ qpc = "check"
    /\ qres' = IsInQuietHoursAt(qnow, qstart, qend)
    /\ qpc' = IF qres'[1] THEN "sleep" ELSE "active"
    /\ UNCHANGED <<qnow, qstart, qend>>

\* The wait_for of handle_quiet_hours times out: sleep_seconds have passed.
QuietSleepEnds ==
    /\ UNCHANGED exceptQuiet
    /\ qpc = "sleep"
    /\ qnow' = (qnow + qres[2] * TicksPerSecond) % TicksPerDay
    /\ qpc' = "woke"
    /\ UNCHANGED <<qstart, qend, qres>>

\* handle_quiet_hours returns True and main()'s loop starts over (`continue`),
\* after dt ticks.
QuietAgain(dt) ==
    /\ UNCHANGED exceptQuiet
    /\ qpc = "woke"
    /\ qnow' = (qnow + dt) % TicksPerDay
    /\ qres' = <<>>
    /\ qpc' = "check"
    /\ UNCHANGED <<qstart, qend>>

QuietNext ==
    \/ QuietCheck
    \/ QuietSleepEnds
    \/ \E dt \in 0..1 : QuietAgain(dt)

(***************************************************************************)
(* get_hackernews (src/src/providers/hackernews.py): the page kept in the  *)
(* state file, over a story cache that expires and is fetched again.       *)
(***************************************************************************)
\* The page size the tests configure.
StoriesPerPage == 5

\* per_page = Config.display.hackernews_stories_per_page, read by every call
\* when it calculates the pagination.
HNPerPage == hnPerPage

\* The most stories a fetch returns.
MaxStories == 20

\* The numbers of stories a fetch may return (none: HNFetchFails).
StoryCounts == {1, HNPerPage, HNPerPage + 1, MaxStories}

\* No state file, no cache file, no call yet.
HNIdle ==
    /\ hnState = 0
    /\ hnCache = 0
    /\ hnpc = "idle"
    /\ hnAdv = FALSE
    /\ hnRet = <<>>

\* _read_state()["current_page"]: 1 when there is no state file.
ReadState(st) == IF st = 0 THEN 1 ELSE st

\* `if advance_page: current_page += 1`
Advance(page, advance_page) == IF advance_page THEN page + 1 ELSE page

\* total_pages = (len(stories) + per_page - 1) // per_page
TotalPages(n) == (n + HNPerPage - 1) \div HNPerPage

\* Faulty variant: no wrap.
WrapNever(current_page, total_pages) == current_page

\* Faulty variant: `>=` for `>`, the last page never shown.
WrapAtLast(current_page, total_pages) ==
    IF current_page >= total_pages THEN 1 ELSE current_page

\* `if current_page > total_pages: current_page = 1`
Wrap(current_page, total_pages) ==
    IF current_page > total_pages THEN 1 ELSE current_page

Min(a, b) == IF a <= b THEN a ELSE b

\* The dictionary get_hackernews returns for page `page` of n stories, with
\* how the stories were got (via), the page the call had read from the state
\* file (was) and whether _write_state could write the file (wrote).
HNResult(page, n, via, was, wrote) ==
    [page |-> page,
     total_pages |-> TotalPages(n),
     start_idx |-> (page - 1) * HNPerPage + 1,
     end_idx |-> Min(page * HNPerPage, n),
     n |-> n, via |-> via, was |-> was, wrote |-> wrote,
     per_page |-> HNPerPage]

\* return {"stories": [], "page": 1, "total_pages": 1, "start_idx": 1,
\*         "end_idx": 0}: the state file is not written.
HNNothing(was) ==
    [page |-> 1, total_pages |-> 1, start_idx |-> 1, end_idx |-> 0,
     n |-> 0, via |-> "failed", was |-> was, wrote |-> FALSE,
     per_page |-> HNPerPage]

\* Faulty variant: the state file is never written.
HNFinishNoWrite(current_page, n, via, writable) ==
    LET page == Wrap(current_page, TotalPages(n))
    IN  /\ hnState' = hnState
        /\ hnRet' = HNResult(page, n, via, ReadState(hnState), writable)
        /\ hnpc' = "idle"

\* From "Calculate pagination" to the return, for n stories: the wrap, then
\* _write_state, which logs and swallows what the write raises (writable:
\* it does not raise).
HNFinish(current_page, n, via, writable) ==
    LET page == Wrap(current_page, TotalPages(n))
    IN  /\ hnState' = IF writable THEN page ELSE hnState
        /\ hnRet' = HNResult(page, n, via, ReadState(hnState), writable)
        /\ hnpc' = "idle"

\* get_hackernews(client, advance_page) up to its return (the cache is
\* there and has not expired) or to its first await (it is not).
HNCallBody(advance_page, writable) ==
    /\ hnpc = "idle"
    /\ hnAdv' = advance_page
    /\ IF hnCache > 0
       THEN HNFinish(Advance(ReadState(hnState), advance_page), hnCache,
                     "cache", writable)
       ELSE /\ hnpc' = "fetching"
            /\ hnRet' = <<>>
            /\ UNCHANGED hnState
    /\ UNCHANGED hnCache

\* Faulty variant: the refresh keeps the page the call had computed.
HNFetchedKeepsPage(n, cacheWritable, writable) ==
    /\ hnpc = "fetching"
    /\ hnCache' = IF cacheWritable THEN n ELSE hnCache
    /\ HNFinish(Advance(ReadState(hnState), hnAdv), n, "refresh", writable)
    /\ UNCHANGED hnAdv

\* The fetch brought n stories: _write_cache(stories), which swallows what
\* the write raises (cacheWritable: it does not raise); current_page = 1.
HNFetchedBody(n, cacheWritable, writable) ==
    /\ hnpc = "fetching"
    /\ hnCache' = IF cacheWritable THEN n ELSE hnCache
    /\ HNFinish(1, n, "refresh", writable)
    /\ UNCHANGED hnAdv

\* The fetch raised, or no story could be fetched.
HNFetchFailsBody ==
    /\ hnpc = "fetching"
    /\ hnRet' = HNNothing(ReadState(hnState))
    /\ hnpc' = "idle"
    /\ UNCHANGED <<hnState, hnCache, hnAdv>>

\* The calls by a caller other than the pagination task.
HNCall(advance_page, writable) ==
    UNCHANGED <<exceptHN, taskVars>> /\ HNCallBody(advance_page, writable)
HNFetched(n, cacheWritable, writable) ==
    UNCHANGED <<exceptHN, taskVars>>
        /\ HNFetchedBody(n, cacheWritable, writable)
HNFetchFails ==
    UNCHANGED <<exceptHN, taskVars>> /\ HNFetchFailsBody

\* time_since_cache > cache_duration: the cache file has expired.
HNCacheExpires ==
    /\ UNCHANGED <<exceptHN, taskVars>>
    /\ hnCache > 0
    /\ hnCache' = 0
    /\ UNCHANGED <<hnState, hnpc, hnAdv, hnRet>>

HNNext ==
    \/ \E advance_page \in BOOLEAN, writable \in BOOLEAN :
          HNCall(advance_page, writable)
    \/ \E n \in StoryCounts, cacheWritable \in BOOLEAN, writable \in BOOLEAN :
          HNFetched(n, cacheWritable, writable)
    \/ HNFetchFails
    \/ HNCacheExpires

(***************************************************************************)
(* The page size changes between calls (the configuration is reloaded),    *)
(* and the writes of _write_cache and _write_state                         *)
(* (src/src/providers/hackernews.py) step by step.                         *)
(***************************************************************************)
\* The page sizes a reload may bring.
PageSizes == {1, 2, StoriesPerPage}

\* CACHE_FILE and STATE_FILE
HNFiles == {"cache", "state"}

\* The documents a write may carry (two versions of either file).
HNDocs == {"old", "new"}

NoWrite == [file |-> "-", doc |-> "-", step |-> "idle"]

\* The configured page size, neither file there, no write under way.
HNFileIdle ==
    /\ hnPerPage = StoriesPerPage
    /\ hnDisk = [f \in HNFiles |-> "absent"]
    /\ hnWrite = NoWrite

\* Config.display.hackernews_stories_per_page has another value at the next
\* `per_page = ...` than at the last.
HNConfigReload(per_page) ==
    /\ UNCHANGED exceptHNFile
    /\ hnPerPage' = per_page
    /\ UNCHANGED <<hnDisk, hnWrite>>

\* _write_cache(stories) or _write_state(state) is entered: the parent
\* directory is made and the document is built.
HNWriteBegin(file, doc) ==
    /\ UNCHANGED exceptHNFile
    /\ hnWrite.step = "idle"
    /\ hnWrite' = [file |-> file, doc |-> doc, step |-> "open"]
    /\ UNCHANGED <<hnPerPage, hnDisk>>

\* `with open(CACHE_FILE, "w", ...) as f:` / `with open(STATE_FILE, "w", ...)`:
\* the file itself is opened for writing, which empties it; ok: the open
\* does not raise (what it raises is logged and swallowed).
HNWriteOpen(ok) ==
    /\ UNCHANGED exceptHNFile
    /\ hnWrite.step = "open"
    /\ IF ok
       THEN /\ hnDisk' = [hnDisk EXCEPT ![hnWrite.file] = "partial"]
            /\ hnWrite' = [hnWrite EXCEPT !.step = "dump"]
       ELSE /\ hnWrite' = NoWrite
            /\ UNCHANGED hnDisk
    /\ UNCHANGED hnPerPage

\* json.dump(data, f, ...) and the close; ok: neither raises (what they
\* raise is logged and swallowed, the file keeps what had been written).
HNWriteDump(ok) ==
    /\ UNCHANGED exceptHNFile
    /\ hnWrite.step = "dump"
    /\ hnDisk' = IF ok THEN [hnDisk EXCEPT ![hnWrite.file] = hnWrite.doc]
                 ELSE hnDisk
    /\ hnWrite' = NoWrite
    /\ UNCHANGED hnPerPage

\* The process ends in the middle of a write: the files stay as they are.
HNWriteCrash ==
    /\ UNCHANGED exceptHNFile
    /\ hnWrite.step \in {"open", "dump"}
    /\ hnWrite' = [hnWrite EXCEPT !.step = "crashed"]
    /\ UNCHANGED <<hnPerPage, hnDisk>>

\* The program is started again.
HNWriteRestart ==
    /\ UNCHANGED exceptHNFile
    /\ hnWrite.step = "crashed"
    /\ hnWrite' = NoWrite
    /\ UNCHANGED <<hnPerPage, hnDisk>>

HNFileNext ==
    \/ \E file \in HNFiles, doc \in HNDocs : HNWriteBegin(file, doc)
    \/ \E ok \in BOOLEAN : HNWriteOpen(ok)
    \/ \E ok \in BOOLEAN : HNWriteDump(ok)
    \/ HNWriteCrash
    \/ HNWriteRestart

HNSizeNext ==
    \/ HNNext
    \/ \E per_page \in PageSizes : HNConfigReload(per_page)

(***************************************************************************)
(* The pagination task (hackernews_pagination_task): every page interval,  *)
(* outside the quiet window, the next page of stories is fetched with      *)
(* get_hackernews(client, advance_page=True) and shown by a partial update.*)
(* The task is modelled from its specification (section 4.5) and from its  *)
(* tests (src/tests/test_task_hackernews.py).                              *)
(***************************************************************************)
\* The iterations explored.
MaxIter == 3

TaskIdle ==
    /\ tpc = "wait"
    /\ tStop = FALSE
    /\ tQuiet = FALSE
    /\ tIter = 0 /\ tSkips = 0 /\ tFetch = 0 /\ tPartial = 0 /\ tFull = 0

\* Faulty variant: the wait times out whether the stop event is set or not.
WaitTimesOutAnyway == TRUE

\* wait_for(stop_event.wait(), timeout=page_seconds) raises TimeoutError
\* only while the stop event is not set.
WaitTimesOut == ~tStop

\* Faulty variant: no quiet-hours check.
SkipsNever(quiet) == FALSE

\* The iteration is skipped when the task's own quiet-hours check says quiet.
SkipsIteration(quiet) == quiet

\* The page is drawn and shown: epd.init_part(), then
\* epd.display_partial_buffer(...); the full-frame display is not used.
PartialUpdate ==
    /\ tPartial' = tPartial + 1
    /\ tFull' = tFull

\* The wait times out and an iteration begins.  quiet: what the task's
\* quiet-hours check returns.  Outside the quiet window get_hackernews is
\* called; when it returns without awaiting (the cache is there) the page is
\* shown in the same step.
TaskTimeout(quiet, writable) ==
    /\ UNCHANGED exceptPage
    /\ tpc = "wait"
    /\ WaitTimesOut
    /\ tIter < MaxIter
    /\ tIter' = tIter + 1
    /\ tQuiet' = quiet
    /\ IF SkipsIteration(quiet)
       THEN /\ tSkips' = tSkips + 1
            /\ tpc' = "wait"
            /\ UNCHANGED <<hnVars, tFetch, tPartial, tFull>>
       ELSE /\ tFetch' = tFetch + 1
            /\ HNCallBody(TRUE, writable)
            /\ IF hnCache > 0
               THEN tpc' = "wait" /\ PartialUpdate
               ELSE tpc' = "fetching" /\ UNCHANGED <<tPartial, tFull>>
            /\ UNCHANGED tSkips
    /\ UNCHANGED tStop

\* The stories awaited by the task's get_hackernews call arrive: the call
\* returns and the page is shown.
TaskFetched(n, cacheWritable, writable) ==
    /\ UNCHANGED exceptPage
    /\ tpc = "fetching"
    /\ HNFetchedBody(n, cacheWritable, writable)
    /\ PartialUpdate
    /\ tpc' = "wait"
    /\ UNCHANGED <<tStop, tQuiet, tIter, tSkips, tFetch>>

\* The task's get_hackernews call fails to fetch: it returns its empty
\* result, which is shown.
TaskFetchFails ==
    /\ UNCHANGED exceptPage
    /\ tpc = "fetching"
    /\ HNFetchFailsBody
    /\ PartialUpdate
    /\ tpc' = "wait"
    /\ UNCHANGED <<tStop, tQuiet, tIter, tSkips, tFetch>>

\* The stop event is found set at the wait (or by the loop's condition):
\* the task returns.
TaskStopObserved ==
    /\ UNCHANGED exceptPage
    /\ tpc = "wait"
    /\ tStop
    /\ tpc' = "done"
    /\ UNCHANGED <<hnVars, tStop, tQuiet, tIter, tSkips, tFetch, tPartial,
                   tFull>>

\* TaskManager.stop_task sets the task's stop event.
TaskSetStop ==
    /\ UNCHANGED exceptPage
    /\ ~tStop
    /\ tpc \in {"wait", "fetching"}
    /\ tStop' = TRUE
    /\ UNCHANGED <<hnVars, tpc, tQuiet, tIter, tSkips, tFetch, tPartial,
                   tFull>>

\* The stop timeout has passed while the fetch is under way: the task is
\* cancelled and CancelledError ends it at its await.
TaskCancelled ==
    /\ UNCHANGED exceptPage
    /\ tpc = "fetching"
    /\ tStop
    /\ tpc' = "cancelled"
    /\ hnpc' = "idle"
    /\ UNCHANGED <<hnState, hnCache, hnAdv, hnRet, tStop, tQuiet, tIter,
                   tSkips, tFetch, tPartial, tFull>>

TaskNext ==
    \/ \E quiet \in BOOLEAN, writable \in BOOLEAN : TaskTimeout(quiet, writable)
    \/ \E n \in StoryCounts, cacheWritable \in BOOLEAN, writable \in BOOLEAN :
          TaskFetched(n, cacheWritable, writable)
    \/ TaskFetchFails
    \/ TaskStopObserved
    \/ TaskSetStop
    \/ TaskCancelled
    \/ HNCacheExpires

(***************************************************************************)
(* retry_strategy (src/src/providers.py) around a fetcher such as          *)
(* get_weather: tenacity calls the fetcher, and calls it again after a     *)
(* pause when it raised an exception the strategy retries on.              *)
(***************************************************************************)
\* stop=stop_after_attempt(3)
StopAfterAttempt == 3

\* wait=wait_fixed(2), in seconds
WaitFixed == 2

\* The calls explored.
MaxRetryCalls == 4

\* What the fetcher's request may end with: a result, or an exception.
TransportErrors == {"RequestError", "HTTPStatusError"}
RequestOutcomes == {"ok"} \cup TransportErrors \cup {"KeyError", "ValueError"}

RetryIdle ==
    /\ rpc = "idle"
    /\ rAttempt = 0
    /\ rLog = <<>>
    /\ rOut = "none"
    /\ rCalls = 0

\* `except Exception as e:` of get_weather: a transport or HTTP-status error
\* is raised again as it is, any other exception as RuntimeError.
FetcherRaises(e) == IF e \in TransportErrors THEN e ELSE "RuntimeError"

\* Faulty variant: retry on every exception.
RetriesOnAny(e) == TRUE

\* retry=retry_if_exception_type((httpx.RequestError, httpx.HTTPStatusError))
RetriesOn(e) == e \in TransportErrors

\* stop_after_attempt(3): no further attempt once attempt_number >= 3.
Stop(attempt_number) == attempt_number >= StopAfterAttempt

AttemptEntry(out) == [ev |-> "attempt", out |-> out, secs |-> 0]
SleepEntry(secs) == [ev |-> "sleep", out |-> "-", secs |-> secs]

\* The wrapped fetcher is called: the first attempt starts.
RetryCall ==
    /\ UNCHANGED exceptRetry
    /\ rpc \in {"idle", "done"}
    /\ rCalls < MaxRetryCalls
    /\ rCalls' = rCalls + 1
    /\ rpc' = "attempt"
    /\ rAttempt' = 1
    /\ rLog' = <<>>
    /\ rOut' = "none"

\* The attempt's request ends with o.  A result is returned; an exception
\* the strategy does not retry on leaves the call as it is; one it retries
\* on leads to the pause, or, the attempts being used up, to RetryError.
AttemptEnds(o) ==
    /\ UNCHANGED exceptRetry
    /\ rpc = "attempt"
    /\ LET out == IF o = "ok" THEN "ok" ELSE FetcherRaises(o)
       IN  /\ rLog' = Append(rLog, AttemptEntry(out))
           /\ IF out = "ok"
              THEN rpc' = "done" /\ rOut' = "returned"
              ELSE IF ~RetriesOn(out)
              THEN rpc' = "done" /\ rOut' = out
              ELSE IF Stop(rAttempt)
              THEN rpc' = "done" /\ rOut' = "RetryError"
              ELSE rpc' = "sleep" /\ rOut' = "none"
    /\ UNCHANGED <<rAttempt, rCalls>>

\* The pause is over: the next attempt starts.
RetrySleepEnds ==
    /\ UNCHANGED exceptRetry
    /\ rpc = "sleep"
    /\ rLog' = Append(rLog, SleepEntry(WaitFixed))
    /\ rAttempt' = rAttempt + 1
    /\ rpc' = "attempt"
    /\ UNCHANGED <<rOut, rCalls>>

RetryNext ==
    \/ RetryCall
    \/ \E o \in RequestOutcomes : AttemptEnds(o)
    \/ RetrySleepEnds

(***************************************************************************)
(* Specifications.                                                         *)
(***************************************************************************)
\* The provider before any call, with no cache file.
ProvIdle ==
    /\ cacheFile = Absent
    /\ ProvInit

\* The initial state of the other components, while one is explored.
TMIdle == TMInit
MainFixed ==
    /\ clock = 0
    /\ cfg = [mode |-> "dashboard", wallpaper_name |-> FALSE, quiet |-> <<1, 6>>]
    /\ day = [holiday |-> FALSE, dec31 |-> FALSE]
    /\ MainInit
CoreIdle == TMIdle /\ MainFixed /\ DriverReady
RestIdle ==
    SaveIdle /\ QuietIdle /\ HNIdle /\ TaskIdle /\ RetryIdle /\ HNFileIdle

\* The TaskManager under any interleaving of callers and activities.
Init == TMInit /\ MainFixed /\ DriverReady /\ ProvIdle /\ RestIdle
Next == TMNext
Spec == Init /\ [][Next]_vars

\* main()'s refresh loop.
InitMain == TMIdle /\ MainInit /\ DriverReady /\ ProvIdle /\ RestIdle
NextMain == MainNext
SpecMain == InitMain /\ [][NextMain]_vars

\* main() from its first line, with the signals the process may receive.
InitSig == TMIdle /\ MainInit /\ SigInit /\ ProvIdle /\ RestIdle
NextSig ==
    \/ MainNext
    \/ CreateDriver
    \/ \E raises \in BOOLEAN : SignalHandler(raises)
SpecSig == InitSig /\ [][NextSig]_vars

\* get_content calls of one provider, over every cache file it may find.
InitProv == TMIdle /\ MainFixed /\ DriverReady /\ ProvInit /\ RestIdle
NextProv == ProvNext
SpecProv == InitProv /\ [][NextProv]_vars

\* get_content calls whose _save_cache runs step by step and may be cut
\* short at any step.
InitSave ==
    /\ CoreIdle /\ ProvInit /\ SaveIdle
    /\ QuietIdle /\ HNIdle /\ TaskIdle /\ RetryIdle /\ HNFileIdle
NextSave == SaveNext
SpecSave == InitSave /\ [][NextSave]_vars

\* is_in_quiet_hours over every window and the instants around every hour.
InitQuiet ==
    /\ CoreIdle /\ ProvIdle /\ SaveIdle
    /\ QuietInit /\ HNIdle /\ TaskIdle /\ RetryIdle /\ HNFileIdle
NextQuiet == QuietNext
SpecQuiet == InitQuiet /\ [][NextQuiet]_vars

\* get_hackernews calls, with and without advance_page.
InitHN ==
    /\ CoreIdle /\ ProvIdle /\ SaveIdle
    /\ QuietIdle /\ HNIdle /\ TaskIdle /\ RetryIdle /\ HNFileIdle
NextHN == HNNext
SpecHN == InitHN /\ [][NextHN]_vars

\* The pagination task with the get_hackernews calls it makes.
InitPage ==
    /\ CoreIdle /\ ProvIdle /\ SaveIdle
    /\ QuietIdle /\ HNIdle /\ TaskIdle /\ RetryIdle /\ HNFileIdle
NextPage == TaskNext
SpecPage == InitPage /\ [][NextPage]_vars

\* get_hackernews calls with the page size changing between them.
InitHNSize ==
    /\ CoreIdle /\ ProvIdle /\ SaveIdle
    /\ QuietIdle /\ HNIdle /\ TaskIdle /\ RetryIdle /\ HNFileIdle
NextHNSize == HNSizeNext
SpecHNSize == InitHNSize /\ [][NextHNSize]_vars

\* The writes of the story cache and of the pagination state.
InitHNFile ==
    /\ CoreIdle /\ ProvIdle /\ SaveIdle
    /\ QuietIdle /\ HNIdle /\ TaskIdle /\ RetryIdle /\ HNFileIdle
NextHNFile == HNFileNext
SpecHNFile == InitHNFile /\ [][NextHNFile]_vars

\* The orchestrator with the pagination task running beside it on the same
\* event loop; the configuration and the kind of day stay as they are.
InitPanel ==
    /\ CoreIdle /\ ProvIdle /\ SaveIdle
    /\ QuietIdle /\ HNIdle /\ TaskIdle /\ RetryIdle /\ HNFileIdle
NextPanel ==
    \/ Startup
    \/ LoopTop
    \/ QuietTimeout
    \/ \E got \in BOOLEAN : FetchReturn(got)
    \/ Render
    \/ Display
    \/ \E k \in 1..3 : DisplayRaise(k)
    \/ IntervalTimeout
    \/ Tick(day)
    \/ TaskNext
SpecPanel == InitPanel /\ [][NextPanel]_vars

\* The activity ends, one way or another.
ActFinishes(a) ==
    ActReturn(a) \/ ActRaise(a) \/ ActRaiseTimeout(a) \/ ActCancelled(a)

\* The manager under fair scheduling: a caller that can take the lock, end
\* its wait or go on with its cleanup does so, wait_for's timeout fires
\* while the task is not done, and an activity that was cancelled ends.
\* Nothing is assumed of the calls being made or of an activity that was
\* not cancelled.
FairTM ==
    /\ \A p \in Callers :
          /\ WF_vars(Acquire(p))
          /\ WF_vars(Timeout(p))
          /\ WF_vars(FinishStop(p))
          /\ WF_vars(CleanupNext(p))
    /\ \A a \in ActIds : WF_vars(cancelReq[a] /\ ActFinishes(a))
SpecFair == Init /\ [][Next]_vars /\ FairTM

\* The main loop under fair scheduling: the event loop runs the orchestrator
\* whenever it can go on, a fetch, a render and a display end (by returning
\* or by raising), and time passes.  Nothing is assumed of the reloads.
FairMain ==
    /\ WF_vars(Startup)
    /\ WF_vars(LoopTop)
    /\ WF_vars(QuietWake)
    /\ WF_vars(QuietTimeout)
    /\ WF_vars((\E got \in BOOLEAN : FetchReturn(got)) \/ FetchRaise)
    /\ WF_vars(Render \/ RenderRaise)
    /\ WF_vars(Display \/ \E k \in 1..3 : DisplayRaise(k))
    /\ WF_vars(IntervalWake)
    /\ WF_vars(IntervalTimeout)
    /\ WF_vars(ZeroWake)
    /\ WF_vars(\E d \in DayKinds : Tick(d))
InitMainFair == TMIdle /\ MainFixed /\ DriverReady /\ ProvIdle /\ RestIdle
SpecMainFair == InitMainFair /\ [][NextMain]_vars /\ FairMain

\* Calls of a fetcher wrapped in retry_strategy.
InitRetry ==
    /\ CoreIdle /\ ProvIdle /\ SaveIdle
    /\ QuietIdle /\ HNIdle /\ TaskIdle /\ RetryIdle /\ HNFileIdle
NextRetry == RetryNext
SpecRetry == InitRetry /\ [][NextRetry]_vars

(***************************************************************************)
(* Properties.                                                             *)
(***************************************************************************)
\* Caller p is suspended in _stop_task, awaiting the task it stops.
Awaiting(p) == call[p].pc \in {"wait", "cancelwait"}

\* Caller p is queued on the manager's lock.
Queued(p) == call[p].pc = "acquire"

\* The activities launched under name n that have not finished.
Unfinished(n) == {a \in ActIds : actName[a] = n /\ status[a] = "running"}

\* C1: an exception raised while fetching, rendering or displaying in one
\* iteration does not end the loop: main() never leaves its loop because of
\* an iteration's exception.
C1_LoopSurvivesIterationFailure ==
    ~(mpc = "exited" /\ exitCause = "exception")

\* C2 (as claimed): the lock is never held while an activity is awaited, so no
\* start or stop of another name is ever queued behind a caller that awaits
\* its activity.
C2_OtherNameNeverWaits ==
    \A p, q \in Callers :
        ~(Awaiting(p) /\ Queued(q) /\ call[q].arg # call[p].arg)

\* C2 (amended): the lock is held exactly while a start or stop awaits the
\* activity it stops (a merely running activity holds no lock), and as long
\* as it is held nobody else does any bookkeeping: the tracked activities,
\* the stop signals and the launches stay as they are, and a queued caller
\* stays queued.
C2_LockHeldAcrossAwait ==
    /\ [](\A p \in Callers : Awaiting(p) <=> lock = p)
    /\ [][(lock # Free /\ lock' = lock) =>
            /\ tasks' = tasks
            /\ stopEvent' = stopEvent
            /\ nextId' = nextId
            /\ \A q \in Callers : Queued(q) => Queued(q)']_vars

\* C2 witness: a start or stop of one name is queued while another caller
\* awaits the activity of a different name.
C2_Witness ==
    \E p, q \in Callers :
        /\ Awaiting(p) /\ Queued(q)
        /\ call[q].op \in {"start", "stop"}
        /\ call[q].arg # call[p].arg

\* C3: at most one unfinished activity exists per name, and it is the one
\* the manager tracks under that name: an activity that was replaced or
\* stopped has terminated.
C3_AtMostOnePerName ==
    /\ \A n \in Names : Cardinality(Unfinished(n)) <= 1
    /\ \A a \in ActIds :
          status[a] = "running" => Tracked(actName[a]) /\ TaskOf(actName[a]) = a

\* C3 witness: two activities were started under one name; the first has
\* terminated and the second runs and is tracked.
C3_Witness ==
    \E a, b \in ActIds :
        /\ a # b /\ actName[a] = actName[b]
        /\ Done(a) /\ stopEvent[a]
        /\ status[b] = "running"
        /\ Tracked(actName[b]) /\ TaskOf(actName[b]) = b

\* C4: a caller awaits only an activity whose stop signal is set; forced
\* cancellation is requested only by a timeout of that wait, on an activity
\* that is signalled and has not finished; and when a stop ends, in every
\* outcome, the activity has terminated and its name is not tracked.
C4_StopProtocol ==
    /\ [](\A p \in Callers : Awaiting(p) => stopEvent[call[p].tgt])
    /\ [][/\ \A a \in ActIds :
               (~cancelReq[a] /\ cancelReq'[a]) =>
                   /\ stopEvent[a] /\ status[a] = "running"
                   /\ \E p \in Callers :
                         /\ call[p].pc = "wait" /\ call[p].tgt = a
                         /\ call'[p].pc = "cancelwait"
          /\ \A p \in Callers :
               (call[p].op \in {"stop", "cleanup"} /\ Awaiting(p) /\ ~Awaiting(p)') =>
                   \A a \in ActIds, n \in Names :
                       (a = call[p].tgt /\ n = call[p].arg) =>
                           Done(a)' /\ ~Tracked(n)']_vars

\* C4 witness: a stop returned after its activity, signalled and then
\* force-cancelled, ended cancelled; the name is no longer tracked.
C4_Witness ==
    \E a \in ActIds :
        /\ status[a] = "cancelled" /\ stopEvent[a] /\ cancelReq[a]
        /\ ~Tracked(actName[a])
        /\ \E p \in Callers : call[p] = Idle("returned")

\* C5: stop never surfaces an error: every stop ends by returning normally.
C5_StopNeverRaises ==
    [][\A p \in Callers :
          (call[p].op = "stop" /\ call'[p].pc = "idle") =>
              call'[p].res \in Normal]_vars

\* C6: a stop whose name is not tracked when _stop_task looks it up changes
\* no tracked activity, no stop signal, no cancellation and no task, and
\* returns normally.
C6_StopUnknownIsNoOp ==
    [][\A p \in Callers, n \in Names :
          (/\ ~Tracked(n)
           /\ \/ StopCall(p, n) /\ ~Queued(p)'
              \/ Acquire(p) /\ call[p].op = "stop" /\ call[p].arg = n) =>
              /\ tasks' = tasks
              /\ stopEvent' = stopEvent
              /\ cancelReq' = cancelReq
              /\ status' = status
              /\ call'[p] = Idle("not_found")]_vars

\* C6 witness: a stop of an unknown name has returned while an activity runs,
\* tracked, unsignalled and uncancelled.
C6_Witness ==
    /\ \E p \in Callers : call[p] = Idle("not_found")
    /\ \E a \in ActIds :
          /\ status[a] = "running" /\ ~stopEvent[a] /\ ~cancelReq[a]
          /\ a \in TrackedActs

\* C7: when cleanup ends, every activity that was tracked when it was called
\* has terminated and is no longer tracked.
C7_CleanupStopsAll ==
    [][\A p \in Callers :
          (call[p].op = "cleanup" /\ call'[p].pc = "idle") =>
              \A a \in call[p].snap : Done(a)' /\ a \notin TrackedActs']_vars

\* C8: is_running(name) is true exactly when an activity launched under the
\* name has not finished, and get_running_tasks() lists, once each, exactly
\* the names for which is_running is true.
C8_IsRunningExact ==
    /\ \A n \in Names : IsRunning(n) <=> Unfinished(n) # {}
    /\ {GetRunningTasks[i] : i \in DOMAIN GetRunningTasks}
          = {n \in Names : IsRunning(n)}
    /\ Len(GetRunningTasks) = Cardinality({n \in Names : IsRunning(n)})

\* C8 witness: one name is tracked with a finished activity (is_running is
\* false) while another name is running.
C8_Witness ==
    \E n, m \in Names :
        /\ Tracked(n) /\ Done(TaskOf(n)) /\ ~IsRunning(n)
        /\ IsRunning(m)
        /\ GetRunningTasks = <<m>>

\* C9: an iteration that found the quiet window fetches nothing, renders
\* nothing and calls no driver method; its wait ends only at the top of the
\* loop (the quiet check), and when it ends before the timer has expired it
\* ended by the config-change event, which is cleared.
C9_QuietIterationIdle ==
    /\ [](mpc = "quiet_wait" =>
             fetched = <<>> /\ rendered = "none" /\ epdCalls = <<>>)
    /\ [][mpc = "quiet_wait" =>
            /\ mpc' \in {"quiet_wait", "top"}
            /\ fetched' = <<>> /\ rendered' = "none" /\ epdCalls' = <<>>
            /\ (mpc' = "top" /\ timer > 0) =>
                    configChanged /\ ~configChanged']_vars

\* C9 witness: a quiet wait was ended early by a config change: the loop is
\* at its top with nothing fetched, rendered or displayed.
C9_Witness ==
    /\ mpc = "top" /\ timer > 0 /\ displayMode = "none"
    /\ ~configChanged
    /\ fetched = <<>> /\ rendered = "none" /\ epdCalls = <<>>

\* C10: during a non-zero interval wait a set config-change event can wake
\* the loop at once and an expired timer can too; every end of the wait is
\* the start of the next cycle; and a wait that ends with time left ended by
\* the event, which is cleared.
C10_IntervalWait ==
    /\ [](mpc = "interval_wait" =>
             /\ configChanged => ENABLED IntervalWake
             /\ timer = 0 => ENABLED IntervalTimeout)
    /\ [][(mpc = "interval_wait" /\ mpc' # "interval_wait") =>
            /\ mpc' = "top"
            /\ timer > 0 => configChanged /\ ~configChanged']_vars

\* C10 witness: the interval wait after a display was ended by a config
\* change with time left on the timer; the next cycle is starting.
C10_Witness ==
    /\ mpc = "top" /\ timer > 0 /\ displayMode # "none"
    /\ ~configChanged
    /\ epdCalls = <<"init", "display", "sleep">>

\* C11: the config-change signal is one boolean: a notification leaves it set
\* whatever it was (a second notification adds nothing), only a notification
\* sets it, and every wake it causes, from the quiet wait, the interval wait
\* or the zero-interval wait, finds it set and leaves it cleared, so that
\* another immediate cycle needs another notification.
C11_SingleSignal ==
    /\ [](configChanged \in BOOLEAN)
    /\ [][/\ (\E c \in Configs : ConfigReload(c)) => configChanged'
          /\ (~configChanged /\ configChanged') =>
                 \E c \in Configs : ConfigReload(c)
          /\ (QuietWake \/ IntervalWake \/ ZeroWake) =>
                 configChanged /\ ~configChanged'
          /\ (mpc \in {"quiet_wait", "interval_wait", "zero_wait"}
                 /\ mpc' = "top" /\ configChanged') => timer = 0]_vars

\* C11 witness: a notification arrived during a cycle, installed another
\* mode, and has been consumed by the wake of the interval wait: the loop is
\* at its top with the signal cleared and time left on the timer.
C11_Witness ==
    /\ mpc = "top" /\ timer > 0 /\ ~configChanged
    /\ displayMode \in ConfigModes /\ displayMode # cfg.mode
    /\ ~day.holiday /\ ~day.dec31

\* C12: after a display whose mode has refresh interval 0 the loop waits
\* without a timer: it leaves the wait only for the top of the loop, only
\* when the config-change event is set, and clears the event; a set event
\* always lets it leave.
C12_ZeroIntervalWaitsForEvent ==
    /\ [](mpc = "zero_wait" => (configChanged => ENABLED ZeroWake))
    /\ [][/\ (mpc = "display" /\ mpc' \notin {"display", "exited"}) =>
                 (mpc' = "zero_wait" <=> GetRefreshInterval(displayMode, cfg) = 0)
          /\ (mpc = "zero_wait" /\ mpc' # "zero_wait") =>
                 /\ mpc' = "top"
                 /\ configChanged /\ ~configChanged']_vars

\* C12 witness: a named wallpaper (interval 0) is on the display and the
\* loop is suspended with no event pending and no timer running.
C12_Witness ==
    /\ mpc = "zero_wait" /\ ~configChanged /\ timer = 0
    /\ displayMode = "wallpaper" /\ rendered = "wallpaper"
    /\ GetRefreshInterval(displayMode, cfg) = 0
    /\ epdCalls = <<"init", "display", "sleep">>

\* C13: every cycle that is not quiet chooses its display mode from today
\* and the configuration in force: holiday when a holiday is active, else
\* year-end on Dec 31, else the configured mode.
C13_ModePriority ==
    [][(mpc = "top" /\ mpc' \in {"fetch", "render"}) =>
           displayMode' = IF day.holiday THEN "holiday"
                          ELSE IF day.dec31 THEN "year_end"
                          ELSE cfg.mode]_vars

\* C13 witness: a holiday on Dec 31: the cycle is in holiday mode.
C13_Witness ==
    /\ day.holiday /\ day.dec31
    /\ displayMode = "holiday" /\ mpc = "render"

\* The current cycle chose year-end mode and was demoted to Dashboard.
Demoted ==
    /\ fetched # <<>> /\ Head(fetched) = "year_end"
    /\ displayMode = "dashboard"

\* C14: a year-end fetch without the year summary raises nothing and demotes
\* the cycle to Dashboard: the dashboard data is fetched next, the dashboard
\* is what generate_image draws and what is displayed, and the wait that
\* follows uses the dashboard refresh interval.
C14_YearEndDemotes ==
    /\ [](Demoted =>
             /\ mpc = "render" =>
                    /\ fetched = <<"year_end", "dashboard">>
                    /\ GenerateImage(displayMode, data, day.holiday) = "dashboard"
             /\ mpc \in {"display", "interval_wait"} => rendered = "dashboard")
    /\ [][/\ (FetchReturn(FALSE) /\ displayMode = "year_end") =>
                 /\ displayMode' = "dashboard" /\ mpc' = "fetch"
                 /\ exitCause' = "none"
          /\ (Demoted /\ mpc = "display" /\ mpc' \notin {"display", "exited"}) =>
                 /\ mpc' = "interval_wait"
                 /\ timer' = RefreshIntervalConfig.dashboard
                 /\ epdCalls' = <<"init", "display", "sleep">>]_vars

\* C14 witness: on Dec 31 the year summary was unavailable; the dashboard
\* is displayed and the loop waits for the dashboard interval.
C14_Witness ==
    /\ day.dec31 /\ Demoted
    /\ fetched = <<"year_end", "dashboard">>
    /\ rendered = "dashboard"
    /\ mpc = "interval_wait" /\ timer = RefreshIntervalConfig.dashboard

\* C15: signal_handler ends the process with status 0 and nothing else; when
\* the driver has been created it has called driver.sleep() first, also when
\* sleep() raised, and when no driver exists it calls nothing.
C15_SignalSleepsThenExits ==
    /\ [](exitStatus \in {"none", "0"})
    /\ [][(\E raises \in BOOLEAN : SignalHandler(raises)) =>
             /\ exitStatus' = "0" /\ mpc' = "exited"
             /\ driver => (sigLog' # <<>> /\ Head(sigLog') = "sleep")
             /\ ~driver => sigLog' = <<>>]_vars

\* C15 witness: sleep() raised in the handler and the process exited with 0.
C15_Witness ==
    /\ driver /\ sigLog = <<"sleep", "error">>
    /\ exitStatus = "0" /\ mpc = "exited"

\* The cache file holds a timestamp and, under the provider's key, a payload.
ValidEntry(f) ==
    /\ f.kind = "json" /\ f.stamp = "ok"
    /\ f.key = ContentType /\ f.payload \in Payloads

\* The cache file cannot be opened, is not a JSON object, or lacks a usable
\* timestamp or the provider's key.
Corrupt(f) ==
    \/ f.kind \in {"unreadable", "garbage", "not_object"}
    \/ f.kind = "json" /\ (f.stamp # "ok" \/ f.key # ContentType)

\* C16: whatever error the fetcher fails with, get_content raises nothing and
\* returns a member of the fallback data, which is not empty; the cache file
\* stays as it is.
C16_FetchFailureFallsBack ==
    /\ [](/\ FallbackData # {}
          /\ ret.via \in {"fetch", "fallback"} => ret.out = "value"
          /\ ret.via = "fallback" => ret.val \in FallbackData)
    /\ [][\A e \in FetchErrors :
             FetchContentRaises(e) =>
                 /\ ret'.out = "value" /\ ret'.via = "fallback"
                 /\ ret'.val \in FallbackData
                 /\ cacheFile' = cacheFile]_vars

\* C16 witness: the cache file was not usable, the fetch failed, and
\* get_content returned fallback content.
C16_Witness ==
    /\ ppc = "idle" /\ ret.out = "value" /\ ret.via = "fallback"
    /\ ret.val \in FallbackData
    /\ Corrupt(cacheFile) /\ fetchCalls = 1

\* C17: a get_content that finds a payload younger than the TTL in the cache
\* file returns that payload, calls no fetcher and leaves the file as it is.
C17_FreshCacheIsReturned ==
    [][(GetContentCall /\ ValidEntry(cacheFile)
           /\ pnow - cacheFile.ts < CacheHours) =>
           /\ ret' = [out |-> "value", val |-> cacheFile.payload, via |-> "cache"]
           /\ fetchCalls' = 0 /\ ppc' = "idle"
           /\ cacheFile' = cacheFile]_vars

\* C17 witness: an hour after the start a payload found in the cache file
\* was returned without a fetch.
C17_Witness ==
    /\ ppc = "idle" /\ ret.via = "cache" /\ fetchCalls = 0
    /\ ValidEntry(cacheFile) /\ ret.val = cacheFile.payload
    /\ saved = NoSave /\ pnow > 0

\* C18 (as claimed): every successful fetch persists {timestamp: now,
\* payload} and returns the payload.
C18_FetchAlwaysPersists ==
    [][\A content \in Payloads, writable \in BOOLEAN :
          FetchContentReturns(content, writable) =>
              /\ cacheFile' = JsonFile("ok", pnow, ContentType, content)
              /\ ret'.val = content]_vars

\* C18 (amended): a get_content that misses the cache calls the fetcher
\* once and returns what it fetched; the entry {timestamp: now, payload}
\* replaces the cache file when the file can be written, and the file stays
\* as it was when it cannot; and after a write every get_content within the
\* TTL of it returns the payload written, without a fetch.
C18_PersistsWhenWritable ==
    /\ [](fetchCalls \in {0, 1} /\ (ppc = "fetching" => fetchCalls = 1))
    /\ [][/\ \A content \in Payloads, writable \in BOOLEAN :
                FetchContentReturns(content, writable) =>
                    /\ ret' = [out |-> "value", val |-> content, via |-> "fetch"]
                    /\ fetchCalls' = 1
                    /\ writable =>
                           cacheFile' = JsonFile("ok", pnow, ContentType, content)
                    /\ ~writable => cacheFile' = cacheFile
          /\ (GetContentCall /\ saved # NoSave
                 /\ pnow - saved.ts < CacheHours) =>
                    /\ ret' = [out |-> "value", val |-> saved.payload,
                               via |-> "cache"]
                    /\ fetchCalls' = 0]_vars

\* C18 witness: a fetched payload was written, and a later get_content
\* within the TTL returned it from the cache.
C18_Witness ==
    /\ saved # NoSave /\ pnow > saved.ts
    /\ ppc = "idle" /\ fetchCalls = 0
    /\ ret = [out |-> "value", val |-> saved.payload, via |-> "cache"]

C20_CorruptCacheIsMiss ==
    /\ [](ret.via = "cache" => ret.out = "value")
    /\ [][(GetContentCall /\ Corrupt(cacheFile)) =>
             /\ ppc' = "fetching" /\ fetchCalls' = 1
             /\ ret'.out # "raise"
             /\ cacheFile' = cacheFile]_vars

\* C20 witness: a cache file with a recent timestamp but without the
\* provider's key was found, and the fetch is under way.
C20_Witness ==
    /\ cacheFile.kind = "json" /\ cacheFile.stamp = "ok"
    /\ cacheFile.key # ContentType
    /\ pnow - cacheFile.ts < CacheHours
    /\ ppc = "fetching" /\ fetchCalls = 1

\* C21: the cache file is replaced only by the rename of the completely
\* written temporary file: whatever step of a save is taken, cut short or
\* fails, the cache file never holds a part of a document, and when it
\* changes it changes from the previous document to the whole new one.
C21_CacheFileReplacedAtomically ==
    [][/\ cacheFile'.kind # "partial"
       /\ cacheFile' # cacheFile =>
              /\ ppc = "save_replace"
              /\ cacheFile' = JsonFile("ok", pending.ts, ContentType,
                                       pending.payload)
              /\ pending.payload \in Payloads]_vars

\* A save that replaced the cache file was followed by one the end of the
\* process cut short while the temporary file was being written: the cache
\* file still holds the earlier save's whole document.
C21_Witness ==
    /\ ppc = "crashed"
    /\ tempFile.kind = "partial"
    /\ saved # NoSave
    /\ cacheFile = JsonFile("ok", saved.ts, ContentType, saved.payload)

\* The hour of the instant is_in_quiet_hours was called at.
QuietHour == qnow \div TicksPerHour

\* C22: for every start hour, end hour and instant of the day, the check
\* reports quiet exactly when start < end and start <= hour < end, or
\* start > end and (hour >= start or hour < end); never when start = end.
C22_QuietMembership ==
    qpc \in {"sleep", "active"} =>
        /\ qres[1] <=>
               \/ qstart < qend /\ qstart <= QuietHour /\ QuietHour < qend
               \/ qstart > qend /\ (QuietHour >= qstart \/ QuietHour < qend)
        /\ qstart = qend => ~qres[1]

\* A window across midnight, checked in the early morning before its end.
C22_Witness ==
    /\ qpc = "sleep"
    /\ qstart > qend
    /\ QuietHour < qend
    /\ qres[1]

\* The end of the quiet window an instant lies in: the next qend o'clock.
WindowEnd(now) ==
    IF now < qend * TicksPerHour THEN qend * TicksPerHour
    ELSE (qend + HoursPerDay) * TicksPerHour

\* C23: when quiet, the number returned is the whole seconds from now to
\* the end of the window, below 24 hours, and the wait of that length ends
\* at an instant that is no longer quiet; when not quiet the number is 0.
C23_SleepReachesWindowEnd ==
    /\ qpc \in {"sleep", "active"} =>
           IF qres[1]
           THEN /\ qres[2] = (WindowEnd(qnow) - qnow) \div TicksPerSecond
                /\ qres[2] < HoursPerDay * SecondsPerHour
           ELSE qres[2] = 0
    /\ qpc = "woke" => ~IsInQuietHoursAt(qnow, qstart, qend)[1]

\* A call with advance_page (a pagination tick) has returned.
TickReturned == hnpc = "idle" /\ hnRet # <<>> /\ hnAdv

\* C24 as stated: every pagination tick leaves the persisted page one
\* further than it found it, or at 1 when that exceeds
\* total_pages = ceil(storyCount / pageSize).
C24_EveryTickAdvancesByOne ==
    TickReturned =>
        /\ hnRet.n > 0 => hnRet.total_pages = TotalPages(hnRet.n)
        /\ ReadState(hnState) = IF hnRet.was + 1 > hnRet.total_pages
                                THEN 1 ELSE hnRet.was + 1

\* C24, amended: a tick served from the unexpired cache advances the page by
\* one, wrapping to 1 only past total_pages = ceil(storyCount / pageSize); a
\* tick that fetches the stories anew restarts at page 1; a tick whose fetch
\* fails returns page 1 of 1 and leaves the persisted page alone.  The page
\* returned is persisted whenever the state file can be written.
C24_TickAdvancesWithinCache ==
    TickReturned =>
        /\ hnRet.via = "cache" =>
               /\ hnRet.total_pages = (hnRet.n + HNPerPage - 1) \div HNPerPage
               /\ hnRet.total_pages * HNPerPage >= hnRet.n
               /\ (hnRet.total_pages - 1) * HNPerPage < hnRet.n
               /\ hnRet.page = IF hnRet.was + 1 > hnRet.total_pages
                               THEN 1 ELSE hnRet.was + 1
               /\ (hnRet.n = 20 /\ HNPerPage = 5) =>
                      /\ hnRet.total_pages = 4
                      /\ <<hnRet.was, hnRet.page>> \in
                             {<<1, 2>>, <<2, 3>>, <<3, 4>>, <<4, 1>>}
        /\ hnRet.via = "refresh" => hnRet.page = 1
        /\ hnRet.via = "failed" =>
               hnRet.page = 1 /\ hnRet.total_pages = 1 /\ ~hnRet.wrote
        /\ hnRet.wrote => hnState = hnRet.page
        /\ ~hnRet.wrote => hnState \in {0, hnRet.was}

\* A tick found page 2 persisted and an expired cache: the stories were
\* fetched again and the page is 1, not 3.
C24_Witness ==
    /\ TickReturned
    /\ hnRet.via = "refresh"
    /\ hnRet.was = 2
    /\ hnRet.total_pages = 4
    /\ hnState = 1

\* C25: an iteration of the pagination task that finds the time inside the
\* quiet window makes no get_hackernews call and issues no display update,
\* partial or full; it goes back to its wait.
C25_QuietIterationSkips ==
    [][(tIter' = tIter + 1 /\ tQuiet') =>
           /\ tFetch' = tFetch
           /\ tPartial' = tPartial
           /\ tFull' = tFull
           /\ hnVars' = hnVars
           /\ tpc' = "wait"]_vars

\* A quiet iteration after one that fetched and showed a page.
C25_Witness ==
    /\ tpc = "wait"
    /\ tQuiet
    /\ tSkips = 1
    /\ tFetch = 1
    /\ tPartial = 1

\* C26: with the stop event set, the task's next step from its wait is to
\* leave the loop, with no fetch and no display update; a stop event set
\* before the first wait has timed out means the task never fetches.
C26_StopObservedAtWait ==
    [][/\ (tStop /\ tpc = "wait" /\ taskVars' # taskVars) =>
              /\ tpc' = "done"
              /\ tFetch' = tFetch
              /\ tPartial' = tPartial
              /\ tFull' = tFull
              /\ hnVars' = hnVars
       /\ (tStop /\ tIter = 0) => (tIter' = 0 /\ tFetch' = 0)
       /\ tpc = "done" => tpc' = "done"]_vars

\* The stop event was set before the first wait timed out and the task has
\* returned without a fetch.
C26_Witness ==
    /\ tpc = "done"
    /\ tStop
    /\ tIter = 0
    /\ tFetch = 0

\* The task's get_hackernews calls that have returned.
TaskFetchesReturned ==
    IF tpc \in {"fetching", "cancelled"} THEN tFetch - 1 ELSE tFetch

\* One get_hackernews call for each iteration outside the quiet window, one
\* partial update for each call that returned, no full update.
TaskCounts ==
    /\ tFetch = tIter - tSkips
    /\ tPartial = TaskFetchesReturned
    /\ tFull = 0

Attempts == SelectSeq(rLog, LAMBDA x : x.ev = "attempt")

\* C28: a call makes at most 3 attempts; each attempt after the first
\* follows a pause of 2 seconds that follows a transport or HTTP-status
\* error; an attempt that ends otherwise ends the call; the third transient
\* failure in a row ends the call with an error.
C28_BoundedRetry ==
    /\ Len(Attempts) <= 3
    /\ rAttempt <= 3
    /\ \A i \in 1..Len(rLog) :
           /\ rLog[i].ev = "sleep" =>
                  /\ rLog[i].secs = 2
                  /\ i > 1
                  /\ rLog[i - 1].ev = "attempt"
                  /\ rLog[i - 1].out \in {"RequestError", "HTTPStatusError"}
           /\ (rLog[i].ev = "attempt" /\ i > 1) => rLog[i - 1].ev = "sleep"
           /\ (rLog[i].ev = "attempt"
                 /\ rLog[i].out \notin {"RequestError", "HTTPStatusError"}) =>
                  /\ i = Len(rLog)
                  /\ rpc = "done"
                  /\ rOut = IF rLog[i].out = "ok" THEN "returned"
                            ELSE rLog[i].out
    /\ (Len(Attempts) = 3 /\ rLog[Len(rLog)].ev = "attempt") =>
           /\ rpc = "done"
           /\ rOut # "none"
           /\ rLog[Len(rLog)].out \in {"RequestError", "HTTPStatusError"} =>
                  rOut \notin {"none", "returned"}

\* Three transient failures in a row, two pauses between them, and the call
\* has ended with an error.
C28_Witness ==
    /\ rpc = "done"
    /\ rOut = "RetryError"
    /\ Len(rLog) = 5
    /\ \A i \in {1, 3, 5} : rLog[i].out \in TransportErrors
    /\ \A i \in {2, 4} : rLog[i].secs = 2

\* C29: the full display call is never made at an hour inside the quiet
\* window, whatever time the fetches between the cycle's quiet check and
\* its display call took (stated for the cycles that fetched data and
\* during which the configuration, and with it the window, was not
\* reloaded).
C29_NoDisplayInQuietWindow ==
    [][(Display /\ fetched # <<>> /\ ~configChanged) =>
           ~IsInQuietHours(clock, cfg.quiet[1], cfg.quiet[2])[1]]_vars

\* C30: a cycle that selected the holiday mode and finds no holiday when
\* the image is generated draws the dashboard and goes on to display it.
C30_HolidayUnavailableDemotes ==
    [][(Render /\ displayMode = "holiday" /\ ~day.holiday) =>
           (rendered' = "dashboard" /\ mpc' = "display")]_vars

\* C37: a fallback result is never persisted: the step of get_content that
\* returns a fallback leaves the cache file and the last saved document
\* exactly as they were, and the next get_content call awaits the fetch
\* again instead of returning.
C37_FallbackNotPersisted ==
    [][ /\ (ppc = "fetching" /\ ppc' = "idle" /\ ret'.via = "fallback")
            => (cacheFile' = cacheFile /\ saved' = saved)
        /\ (ppc = "idle" /\ ret.via = "fallback" /\ ret' # ret)
            => (ppc' = "fetching" /\ fetchCalls' = 1 /\ cacheFile' = cacheFile) ]_vars

\* A fallback was returned while an expired cache file exists: the file is
\* still the expired document of the fetched content type.
C37_Witness ==
    /\ ppc = "idle"
    /\ ret.via = "fallback"
    /\ cacheFile.kind = "json"
    /\ cacheFile.stamp = "ok"
    /\ cacheFile.key = ContentType
    /\ saved = NoSave

\* C38: _save_cache never raises: however the save ends (the open, the dump
\* or the replace failing, or all succeeding), get_content returns the
\* freshly fetched payload, and when the replace did not happen the cache
\* file is the one that was there before the save.
C38_SaveFailureKeepsPayload ==
    [][ (ppc \in SaveSteps /\ ppc' = "idle")
            => /\ ret' = [out |-> "value", val |-> pending.payload, via |-> "fetch"]
               /\ \/ cacheFile' = cacheFile
                  \/ (ppc = "save_replace" /\ cacheFile' = pending) ]_vars

\* A save failed with an earlier cache file in place: the caller has the
\* fetched payload and the cache file still holds the earlier document.
C38_Witness ==
    /\ ppc = "idle"
    /\ ret.via = "fetch"
    /\ ret.out = "value"
    /\ cacheFile \notin {Absent, Partial}
    /\ cacheFile.payload # ret.val
    /\ tempFile # Absent


\* The driver is asleep after a sequence of calls that is empty or ends with
\* sleep (the driver starts uninitialised, and a cycle starts with the calls
\* of the cycle before it ended).
DriverAsleep(calls) == calls = <<>> \/ calls[Len(calls)] = "sleep"

\* C39: the orchestrator's driver calls are init, clear, sleep once at
\* startup and init, display, sleep once in every cycle that reaches its
\* wait; a cycle that fails leaves the loop with a prefix of them, so display
\* is only called after an init and before the next sleep; a quiet cycle
\* makes no driver call; and the driver is asleep whenever the orchestrator
\* is blocked on a timer or event wait or on a fetch.
C39_DriverProtocol ==
    [][ /\ epdCalls' # epdCalls =>
            \/ mpc = "startup" /\ epdCalls' = <<"init", "clear", "sleep">>
            \/ mpc = "top" /\ epdCalls' = <<>> /\ DriverAsleep(epdCalls)
            \/ mpc = "display" /\ epdCalls = <<>>
                  /\ epdCalls' = <<"init", "display", "sleep">>
            \/ mpc = "display" /\ epdCalls = <<>> /\ mpc' = "exited"
                  /\ epdCalls' \in {<<"init">>, <<"init", "display">>}
        /\ mpc' \in {"interval_wait", "zero_wait"}
              => epdCalls' = <<"init", "display", "sleep">>
        /\ mpc' \in {"quiet_wait", "fetch"} => epdCalls' = <<>>
        /\ (mpc = "startup" /\ mpc' # mpc) => epdCalls' # epdCalls ]_vars

\* A full refresh was displayed and the orchestrator is blocked on its
\* interval timer with the driver asleep.
C39_Witness ==
    /\ mpc = "interval_wait"
    /\ timer > 0
    /\ DriverAsleep(epdCalls)
    /\ Len(epdCalls) = 3
    /\ rendered # "none"

\* A get_hackernews call has returned after fetching the stories anew.
Refreshed == hnpc = "idle" /\ hnRet # <<>> /\ hnRet.via = "refresh"

Wrapped ==
    /\ hnpc = "idle"
    /\ hnRet # <<>>
    /\ hnRet.via = "cache"
    /\ Advance(hnRet.was, hnAdv) > hnRet.total_pages

\* C34: after the page has wrapped back to 1, the next get_hackernews call
\* fetches the stories from the network: it does not return from the cache.
C34_WrapForcesRefetch ==
    [][ (Wrapped /\ hnCache' = hnCache /\ (hnRet' # hnRet \/ hnAdv' # hnAdv))
            => hnpc' = "fetching" ]_vars

\* C32: the story cache and the pagination state file are overwritten only
\* by writing a temporary file and renaming it: whenever no write is under
\* way (it ended, failed, or the process was stopped in the middle of it),
\* neither hackernews_cache.json nor hackernews_state.json is a partially
\* written document.
C32_HNFilesNeverPartial ==
    hnWrite.step \in {"idle", "crashed"} =>
        \A f \in HNFiles : hnDisk[f] # "partial"

\* A get_hackernews call has returned.
HNReturned == hnpc = "idle" /\ hnRet # <<>>

\* C35: whatever calls were made from an absent state file (advancing or
\* not, served from the cache, refreshed, failed, with the page size
\* changing between them), every result has 1 <= page <= total_pages, a
\* result with stories has a slice of at least one and at most per_page
\* stories inside the story list, and the persisted current_page is at
\* least 1 and, when the call could write it, the page returned.
C35_PageWithinRange ==
    /\ ReadState(hnState) >= 1
    /\ HNReturned =>
           /\ 1 <= hnRet.page
           /\ hnRet.page <= hnRet.total_pages
           /\ hnRet.via # "failed" =>
                  /\ hnRet.start_idx >= 1
                  /\ hnRet.end_idx <= hnRet.n
                  /\ hnRet.end_idx - hnRet.start_idx + 1 >= 1
                  /\ hnRet.end_idx - hnRet.start_idx + 1 <= hnRet.per_page
           /\ hnRet.wrote => hnState = hnRet.page

\* The page size grew between two calls: a call that does not advance finds
\* a persisted page beyond the last page and returns page 1.
C35_Witness ==
    /\ HNReturned
    /\ ~hnAdv
    /\ hnRet.via = "cache"
    /\ hnRet.was > hnRet.total_pages
    /\ hnRet.per_page = StoriesPerPage
    /\ hnRet.page = 1

CycleStarted == mpc = "top"

\* C36: no config-change notification is lost: one that arrives while the
\* orchestrator fetches, renders or displays stays pending until a wait
\* takes it, and under fair scheduling every notification pending outside
\* the quiet window is followed by the start of a new cycle.
C36_NotificationStartsCycle ==
    /\ [][ (configChanged /\ mpc \in {"fetch", "render", "display"})
               => configChanged' ]_vars
    /\ [](( /\ configChanged
            /\ ~IsInQuietHours(clock, cfg.quiet[1], cfg.quiet[2])[1])
              => <>CycleStarted)

\* C40: every start, stop and cleanup call comes to its end (it returns, or
\* raises what the stopped task raised) with the manager's lock released,
\* provided a cancelled activity ends: a caller that is in a call is
\* eventually in none, a caller that is in no call or between two stops of
\* a cleanup does not hold the lock, and a caller queued for the lock gets
\* it, so that no calls deadlock the manager.
C40_CallsEndAndReleaseLock ==
    /\ \A p \in Callers :
          /\ [](call[p].pc # "idle" => <>(call[p].pc = "idle"))
          /\ [](call[p].pc = "acquire" => <>(call[p].pc # "acquire"))
          /\ [](call[p].pc \in {"idle", "cleanup", "acquire"} => lock # p)
    /\ []((\A p \in Callers : call[p].pc = "idle")
              => (lock = Free /\ waiters = <<>>))

\* A stop had to cancel an activity that ignored its stop event, while the
\* other caller was queued for the lock; both calls have ended and the lock
\* is free.
C40_Witness ==
    /\ \A p \in Callers : call[p].pc = "idle" /\ call[p].res # "none"
    /\ \E a \in ActIds : status[a] = "cancelled" /\ stopEvent[a]
    /\ lock = Free
    /\ waiters = <<>>

=============================================================================
